---- MODULE Spec2Model ----
(***************************************************************************)
(* A model of the incremental lexers of Notepad2 (Scintilla lexers for     *)
(* PowerShell, Dart, F#, Asymptote, VHDL and CMake): each Colourizer is a  *)
(* state machine stepped one loop iteration at a time over a document, and *)
(* each Folder one character at a time.  A document is a sequence of       *)
(* one-character strings; a style is the name of its SCE_<LANG>_ constant  *)
(* without the prefix.                                                     *)
(***************************************************************************)
EXTENDS Integers, Sequences, FiniteSets, TLC

VARIABLES
    lang,   \* the language whose Colourizer/Folder runs
    doc,    \* the document: a sequence of characters
    phase,  \* "full": one pass over the document; "first"/"second": two passes split at a line start;
            \* "relex": a second pass from a line start; "fold"/"refold": the Folder on the document / from a line start
    pc,     \* position of the running pass: "start", "loop", "done"
    split,  \* the line start at which the two-pass run is split
    lx,     \* the running pass: cursor, state, locals, and the styles / line states / levels it has written
    full,   \* the result of the one-pass run, kept to compare with
    reprs,  \* the editor's SpecialRepresentations: key -> representation, first-byte counters, crlf flag
    pcache, \* the editor's PositionCache: its entries and its clock
    llc,    \* the editor's LineLayoutCache: level, slots, caret slot
    bf      \* a BreakFinder over one laid-out line, with the segments it has returned

lexer == <<lang, doc, phase, pc, split, lx, full>>
editor == <<reprs, pcache, llc, bf>>
vars == <<lang, doc, phase, pc, split, lx, full, reprs, pcache, llc, bf>>

\* ------------------------------------------------------------ bounds
\* Documents have at most MaxLines lines taken from a per-language line set.
MaxLines == 2

\* ------------------------------------------------------------ characters
NUL == "NUL"
LF == "\n"

Digits == {"0", "1", "2", "3", "4", "5", "6", "7", "8", "9"}
OctalDigits == {"0", "1", "2", "3", "4", "5", "6", "7"}
LowerCase == {"a", "b", "c", "d", "e", "f", "g", "h", "i", "j", "k", "l", "m",
              "n", "o", "p", "q", "r", "s", "t", "u", "v", "w", "x", "y", "z"}
UpperCase == {"A", "B", "C", "D", "E", "F", "G", "H", "I", "J", "K", "L", "M",
              "N", "O", "P", "Q", "R", "S", "T", "U", "V", "W", "X", "Y", "Z"}
HexDigits == Digits \cup {"a", "b", "c", "d", "e", "f", "A", "B", "C", "D", "E", "F"}
Punctuation == {"!", "\"", "#", "$", "%", "&", "'", "(", ")", "*", "+", ",", "-", ".", "/",
                ":", ";", "<", "=", ">", "?", "@", "[", "\\", "]", "^", "_", "{", "|", "}", "~"}

IsEOLChar(ch) == ch \in {"\r", LF}
isspacechar(ch) == ch \in {" ", "\t", LF, "\r"}
IsWhiteSpace(ch) == ch \in {" ", "\t", LF, "\r"}
IsADigit(ch) == ch \in Digits
IsOctalDigit(ch) == ch \in OctalDigits
IsHexDigit(ch) == ch \in HexDigits
IsUpperCase(ch) == ch \in UpperCase
IsLowerCase(ch) == ch \in LowerCase
IsAlphaNumeric(ch) == ch \in Digits \cup LowerCase \cup UpperCase
IsIdentifierChar(ch) == IsAlphaNumeric(ch) \/ ch = "_"
IsIdentifierStart(ch) == ch \in LowerCase \cup UpperCase \cup {"_"}
IsAGraphic(ch) == ch \in Digits \cup LowerCase \cup UpperCase \cup Punctuation
IsNumberStart(ch, chNext) == IsADigit(ch) \/ (ch = "." /\ IsADigit(chNext))

\* IsADigit(ch, base) of CharacterSet.h: base <= 10 tests '0' <= ch < '0' + base.
IsADigitBase(ch, base) ==
    IF base = 8 THEN ch \in OctalDigits
    ELSE IF base = 16 THEN ch \in HexDigits
    ELSE IF base = 10 THEN ch \in Digits
    ELSE FALSE

\* ------------------------------------------------------------ integers as bit fields
RECURSIVE Pow2(_)
Pow2(n) == IF n = 0 THEN 1 ELSE 2 * Pow2(n - 1)

ShiftLeft(x, n) == x * Pow2(n)
ShiftRight(x, n) == x \div Pow2(n)
BitMask(x, n) == x % Pow2(n)

RECURSIVE BitOr(_, _)
BitOr(a, b) ==
    IF a = 0 THEN b
    ELSE IF b = 0 THEN a
    ELSE IF a = -1 \/ b = -1 THEN -1
    ELSE (IF (a % 2) + (b % 2) > 0 THEN 1 ELSE 0) + 2 * BitOr(a \div 2, b \div 2)

RECURSIVE BitAnd(_, _)
BitAnd(a, b) ==
    IF a = 0 \/ b = 0 THEN 0
    ELSE (IF (a % 2) + (b % 2) = 2 THEN 1 ELSE 0) + 2 * BitAnd(a \div 2, b \div 2)

Min(a, b) == IF a < b THEN a ELSE b
Max(a, b) == IF a < b THEN b ELSE a

\* ------------------------------------------------------------ the document (LexAccessor)
Length == Len(doc)
CharAt(p) == IF p >= 0 /\ p < Len(doc) THEN doc[p + 1] ELSE NUL

\* GetLine(pos): the number of line ends before pos.
GetLine(p) == Cardinality({i \in 1..Min(p, Len(doc)) : doc[i] = LF})
lineDocEnd == GetLine(Len(doc))

\* LineStart(line): the position after the line-th line end, the document's length past the last line.
LineStart(line) ==
    IF line <= 0 THEN 0
    ELSE IF line > lineDocEnd THEN Len(doc)
    ELSE CHOOSE p \in 1..Len(doc) : doc[p] = LF /\ GetLine(p) = line

LineStarts == {LineStart(l) : l \in 0..lineDocEnd}

\* LexGetNextChar(styler, pos, endPos): the first non-blank character in [pos, endPos), or NUL.
RECURSIVE LexGetNextChar(_, _)
LexGetNextChar(p, limit) ==
    IF p >= limit THEN NUL
    ELSE IF ~IsWhiteSpace(CharAt(p)) THEN CharAt(p)
    ELSE LexGetNextChar(p + 1, limit)

\* ------------------------------------------------------------ StyleContext
Ch(s) == IF s.eof THEN " " ELSE CharAt(s.pos)
ChNext(s) == IF s.eof THEN " " ELSE CharAt(s.pos + 1)
ChPrev(s) == IF s.eof THEN " " ELSE IF s.pos = s.startPos THEN NUL ELSE CharAt(s.pos - 1)
GetRelative(s, n) == CharAt(s.pos + n)
CurrentLine(s) == GetLine(s.pos)
AtLineStart(s) == ~s.eof /\ LineStart(GetLine(s.pos)) = s.pos
AtLineEnd(s) ==
    \/ s.eof
    \/ IF GetLine(s.pos) < lineDocEnd
       THEN s.pos >= LineStart(GetLine(s.pos) + 1) - 1
       ELSE s.pos >= LineStart(GetLine(s.pos) + 1)
More(s) == s.pos < s.endPos
Match1(s, c) == Ch(s) = c
Match2(s, c0, c1) == Ch(s) = c0 /\ ChNext(s) = c1
Match3(s, c0, c1, c2) == Ch(s) = c0 /\ ChNext(s) = c1 /\ GetRelative(s, 2) = c2
MatchNext(s) == ChNext(s) = Ch(s) /\ GetRelative(s, 2) = Ch(s)
MatchNext2(s, c0, c1) == ChNext(s) = c0 /\ GetRelative(s, 2) = c1
GetCharAfterNext(s) == GetRelative(s, 2)
LengthCurrent(s) == s.pos - s.startSeg

\* The text of the current token, at most n - 1 characters of it.
GetCurrent(s, n) ==
    IF s.pos <= s.startSeg THEN <<>>
    ELSE SubSeq(doc, s.startSeg + 1, Min(s.pos, s.startSeg + n - 1))

GetLineNextChar(s, ignoreCurrent) ==
    IF ~ignoreCurrent /\ ~IsWhiteSpace(Ch(s)) THEN Ch(s)
    ELSE IF s.pos + 1 = LineStart(GetLine(s.pos) + 1) THEN NUL
    ELSE IF ~IsWhiteSpace(ChNext(s)) THEN ChNext(s)
    ELSE LexGetNextChar(s.pos + 2, LineStart(GetLine(s.pos) + 1))

GetDocNextChar(s) ==
    IF ~IsWhiteSpace(Ch(s)) THEN Ch(s)
    ELSE IF ~IsWhiteSpace(ChNext(s)) THEN ChNext(s)
    ELSE LexGetNextChar(s.pos + 2, Len(doc))

\* Forward(): one character on, never past the end of the range.
Forward(s) ==
    IF s.pos < s.endPos THEN [s EXCEPT !.pos = @ + 1] ELSE [s EXCEPT !.eof = TRUE]

RECURSIVE ForwardN(_, _)
ForwardN(s, n) == IF n <= 0 THEN s ELSE ForwardN(Forward(s), n - 1)

\* Advance(nb): nb characters on, none of them a line end.
Advance(s, n) == ForwardN(s, n)

\* LexAccessor::ColourTo through StyleContext::SetState: the token [startSeg, e) gets the
\* state it was scanned in and is committed as a run; an empty token commits nothing, and
\* neither does a position before the segment start.  The sink is the document: it stores
\* no style past its last byte, so a token that ends on the position after it is cut there.
ColourToPos(s, e) ==
    IF e <= s.startSeg THEN s
    ELSE LET end == Min(e, Len(doc)) IN
         [s EXCEPT !.styles = [i \in DOMAIN @ |-> IF i > s.startSeg /\ i <= end THEN s.state ELSE @[i]],
                   !.runs = IF end > s.startSeg THEN Append(@, <<s.startSeg, end, s.state>>) ELSE @,
                   !.startSeg = e]

ColourTo(s) == ColourToPos(s, s.pos)

SetState(s, st) == [ColourTo(s) EXCEPT !.state = st]
ChangeState(s, st) == [s EXCEPT !.state = st]
ForwardSetState(s, st) == SetState(Forward(s), st)
\* Complete(): the last token is committed; a cursor past the document's end is brought back.
Complete(s) == ColourToPos(s, IF s.pos > Len(doc) THEN s.pos - 1 ELSE s.pos)

GetLineState(s, line) == IF line >= 0 /\ line < Len(s.ls) THEN s.ls[line + 1] ELSE 0
SetLineState(s, line, v) ==
    IF line >= 0 /\ line < Len(s.ls) THEN [s EXCEPT !.ls[line + 1] = v, !.lsSet = @ \cup {line}] ELSE s
StyleAt(s, p) == IF p >= 0 /\ p < Len(s.styles) THEN s.styles[p + 1] ELSE "DEFAULT"

\* StyleContext's constructor: the cursor at startPos in state initStyle, over the styles and
\* line states the document holds.  A range that ends with the document is one longer, so that
\* the loop sees the end of the last token.
StyleContext(startPos, length, initStyle, styles, ls) ==
    [startPos |-> startPos,
     endPos |-> IF startPos + length = Len(doc) THEN startPos + length + 1 ELSE startPos + length,
     pos |-> startPos,
     startSeg |-> startPos, state |-> initStyle, eof |-> FALSE, cont |-> FALSE,
     styles |-> styles, ls |-> ls, lsSet |-> {}, runs |-> <<>>]

\* A document before its first lexing: every style DEFAULT, every line state 0.
BlankStyles == [i \in 1..Len(doc) |-> "DEFAULT"]
BlankLineStates == [i \in 1..(lineDocEnd + 1) |-> 0]

\* `continue`: the rest of the loop body is skipped.
Continue(s) == [s EXCEPT !.cont = TRUE]

\* Adds the fields of record r to record s (r's value where both have the field).
Merge(s, r) ==
    [f \in (DOMAIN s) \cup (DOMAIN r) |-> IF f \in DOMAIN r THEN r[f] ELSE s[f]]

\* ------------------------------------------------------------ documents
RECURSIVE JoinLines(_)
JoinLines(ls) ==
    IF Len(ls) = 0 THEN <<>>
    ELSE IF Len(ls) = 1 THEN ls[1]
    ELSE ls[1] \o <<LF>> \o JoinLines(Tail(ls))

\* The documents of at most MaxLines lines, each line one of `lines`.
DocsOf(lines) ==
    UNION {{JoinLines(ls) : ls \in [1..n -> lines]} : n \in 1..MaxLines}

\* ------------------------------------------------------------ SpecialRepresentations (EditModel.cxx)
\* A byte is a number; a key string is a sequence of at most four bytes.  A representation is
\* its text; TooLongText stands for every text of more than Representation::maxLength bytes.
TooLongText == "too long"
RECURSIVE loadbe(_, _)
loadbe(charBytes, n) == IF n = 0 THEN 0 ELSE loadbe(charBytes, n - 1) * 256 + charBytes[n]
\* The same bytes packed in the opposite order.
RECURSIVE loadle(_, _)
loadle(charBytes, n) == IF n = 0 THEN 0 ELSE loadle(Tail(charBytes), n - 1) * 256 + charBytes[1]
KeyFromStringLittleEnd(charBytes) == loadle(charBytes, Len(charBytes))
\* Pack the character bytes into an int: the bytes read big-endian, shifted down to the low end.
KeyFromString(charBytes) == loadbe(charBytes, Len(charBytes))
representationKeyCrLf == 13 * 256 + 10
\* The width of a startByteHasReprs counter.
CounterBits == 8
CounterWrap(n) == n % (2 ^ CounterBits)
ReprBytes == {0, 10, 13}
ucStartOf(charBytes) == IF charBytes = <<>> THEN 0 ELSE charBytes[1]
NewSpecialRepresentations ==
    [mapReprs |-> <<>>, startByteHasReprs |-> [b \in ReprBytes |-> 0], crlf |-> FALSE, calls |-> 0]
MapPut(m, key, value) == [k \in DOMAIN m \cup {key} |-> IF k = key THEN value ELSE m[k]]
MapErase(m, key) == [k \in DOMAIN m \ {key} |-> m[k]]
SetRepresentation(r, charBytes, value) ==
    IF Len(charBytes) <= 4 /\ value # TooLongText
    THEN LET key == KeyFromString(charBytes)
             inserted == key \notin DOMAIN r.mapReprs
             ucStart == ucStartOf(charBytes)
         IN  IF inserted
             THEN [r EXCEPT !.mapReprs = MapPut(@, key, value),
                            !.startByteHasReprs[ucStart] = CounterWrap(@ + 1),
                            !.crlf = IF key = representationKeyCrLf THEN TRUE ELSE @]
             ELSE [r EXCEPT !.mapReprs = MapPut(@, key, value)]
    ELSE r
ClearRepresentation(r, charBytes) ==
    IF Len(charBytes) <= 4
    THEN LET key == KeyFromString(charBytes)
             ucStart == ucStartOf(charBytes)
         IN  IF key \in DOMAIN r.mapReprs
             THEN [r EXCEPT !.mapReprs = MapErase(@, key),
                            !.startByteHasReprs[ucStart] = CounterWrap(@ - 1),
                            !.crlf = IF key = representationKeyCrLf THEN FALSE ELSE @]
             ELSE r
    ELSE r
\* The three lookups answer with the representation found, or NoRepresentation (a null pointer).
NoRepresentation == "nullptr"
GetRepresentation(r, charBytes) ==
    LET key == KeyFromString(charBytes)
    IN  IF key \in DOMAIN r.mapReprs THEN r.mapReprs[key] ELSE NoRepresentation
RepresentationFromCharacter(r, charBytes) ==
    IF Len(charBytes) <= 4
    THEN IF r.startByteHasReprs[ucStartOf(charBytes)] = 0
         THEN NoRepresentation
         ELSE GetRepresentation(r, charBytes)
    ELSE NoRepresentation
Contains(r, charBytes) ==
    IF r.startByteHasReprs[ucStartOf(charBytes)] = 0
    THEN FALSE
    ELSE KeyFromString(charBytes) \in DOMAIN r.mapReprs
SpecialRepresentationsClear(r) ==
    [r EXCEPT !.mapReprs = <<>>, !.startByteHasReprs = [b \in ReprBytes |-> 0], !.crlf = FALSE]

\* ------------------------------------------------------------ PositionCache (EditModel.cxx)
\* The vector pces is kept as its size and its entries other than the default-constructed one;
\* a text is a sequence of bytes.
PositionCacheEntry == [styleNumber |-> 0, text |-> <<>>, clock |-> 0]
EntryAt(c, i) == IF i \in DOMAIN c.pces THEN c.pces[i] ELSE PositionCacheEntry
\* PositionCacheEntry::Retrieve: the entry holds the widths of this text in this style.
EntryRetrieve(pce, styleNumber, sv) == pce.styleNumber = styleNumber /\ pce.text = sv
NewerThan(pce, other) == pce.clock > other.clock
ResetClock(pce) == IF pce.clock > 0 THEN [pce EXCEPT !.clock = 1] ELSE pce
RECURSIVE BitXor(_, _)
BitXor(a, b) ==
    IF a = 0 THEN b
    ELSE IF b = 0 THEN a
    ELSE ((a + b) % 2) + 2 * BitXor(a \div 2, b \div 2)
\* std::hash is the library's: the model takes the packed bytes of a text, and a number itself.
StdHash(sv) == loadbe(sv, Len(sv)) % 65536
Hash(styleNumber, sv) == BitXor(StdHash(sv), styleNumber * 2)
AllGraphicASCII(text) == \A i \in 1..Len(text) : text[i] < 128
RECURSIVE NextPowerOfTwoFrom(_, _)
NextPowerOfTwoFrom(p, x) == IF p >= x THEN p ELSE NextPowerOfTwoFrom(2 * p, x)
NextPowerOfTwo(x) == NextPowerOfTwoFrom(1, x)
IsPowerOfTwoOrZero(x) == x = 0 \/ NextPowerOfTwo(x) = x
\* The clock is wrapped round when it passes ClockLimit.
ClockLimit == 60000
PositionCacheSize == 2048
\* stored holds the slot the last MeasureWidths stored into, if it stored; calls counts the
\* calls made.
NoSlot == {}
NewPositionCache ==
    [size |-> PositionCacheSize, pces |-> <<>>, clock |-> 1, allClear |-> TRUE,
     stored |-> NoSlot, calls |-> 0]
PositionCacheClear(c) ==
    [c EXCEPT !.pces = IF c.allClear THEN @ ELSE <<>>, !.clock = 1, !.allClear = TRUE,
              !.stored = NoSlot]
SetSize(c, size_) ==
    LET cleared == PositionCacheClear(c)
        rounded == IF IsPowerOfTwoOrZero(size_) THEN size_ ELSE NextPowerOfTwo(size_)
    IN  IF size_ # c.size
        THEN [cleared EXCEPT !.size = rounded,
                             !.pces = [i \in {j \in DOMAIN @ : j < rounded} |-> @[i]]]
        ELSE cleared
\* A store that wraps the clock without resetting the entries.
StoreEntryNoReset(c, probe, styleNumber, sv) ==
    LET ticked == c.clock + 1
        clock == IF ticked > ClockLimit THEN 2 ELSE ticked
    IN  [c EXCEPT !.clock = clock, !.allClear = FALSE, !.stored = {probe},
                  !.pces = MapPut(@, probe, [styleNumber |-> styleNumber, text |-> sv, clock |-> clock])]
\* The store at the end of MeasureWidths.
StoreEntry(c, probe, styleNumber, sv) ==
    LET ticked == c.clock + 1
        wrapped == ticked > ClockLimit
        pces == IF wrapped THEN [i \in DOMAIN c.pces |-> ResetClock(c.pces[i])] ELSE c.pces
        clock == IF wrapped THEN 2 ELSE ticked
    IN  [c EXCEPT !.clock = clock, !.allClear = FALSE, !.stored = {probe},
                  !.pces = MapPut(pces, probe, [styleNumber |-> styleNumber, text |-> sv, clock |-> clock])]
\* MeasureWidths of a text in a style that is monospaceASCII or not.  With no slot at all the
\* reads of pces[probe] and pces[probe2] are out of bounds; whatever they give, the call
\* returns on a hit or finds probe not below the size, and stores nothing.
MeasureWidths(c, styleNumber, monospaceASCII, sv) ==
    LET idle == [c EXCEPT !.stored = NoSlot]
    IN  IF monospaceASCII /\ AllGraphicASCII(sv) THEN idle
        ELSE IF Len(sv) < 64
        THEN IF c.size = 0 THEN idle
             ELSE LET hashValue == Hash(styleNumber, sv)
                      probe == hashValue % c.size
                      probe2 == (hashValue * 37) % c.size
                  IN  IF EntryRetrieve(EntryAt(c, probe), styleNumber, sv) THEN idle
                      ELSE IF EntryRetrieve(EntryAt(c, probe2), styleNumber, sv) THEN idle
                      ELSE IF NewerThan(EntryAt(c, probe), EntryAt(c, probe2))
                           THEN StoreEntry(c, probe2, styleNumber, sv)
                           ELSE StoreEntry(c, probe, styleNumber, sv)
        ELSE idle

\* ------------------------------------------------------------ LineLayoutCache (EditModel.cxx)
\* A LineLayout is kept by its line, its capacity and its validity; the vector cache by its
\* size and its slots that hold a layout (every other slot holds a null pointer).
ValidLevels == <<"invalid", "checkTextAndStyle", "positions", "lines">>
ValidOrder(validity) == CHOOSE i \in DOMAIN ValidLevels : ValidLevels[i] = validity
LineLayout(lineNumber_, maxLineLength_) ==
    [lineNumber |-> lineNumber_, maxLineLength |-> maxLineLength_, validity |-> "invalid"]
LineLayoutInvalidate(ll, validity_) ==
    IF ValidOrder(ll.validity) > ValidOrder(validity_) THEN [ll EXCEPT !.validity = validity_] ELSE ll
CanHold(ll, lineDoc, lineLength_) == ll.lineNumber = lineDoc /\ lineLength_ <= ll.maxLineLength
AlignUp(value, alignment) == ((value + alignment - 1) \div alignment) * alignment
\* The largest number of the model stands for SIZE_MAX.
SIZE_MAX == 2 ^ 30 + (2 ^ 30 - 1)
\* ret holds what the last Retrieve was asked for and the slot it answered with; calls counts
\* the calls made.
NewLineLayoutCache ==
    [lastCaretSlot |-> SIZE_MAX, level |-> "None", allInvalidated |-> FALSE, styleClock |-> 0 - 1,
     size |-> 0, cache |-> <<>>, ret |-> {}, calls |-> 0]
Resized(cache, size) == [i \in {j \in DOMAIN cache : j < size} |-> cache[i]]
AllocateForLevel(c, linesOnScreen, linesInDoc) ==
    LET lengthForLevel ==
            CASE c.level = "Page" -> 1 + AlignUp(4 * linesOnScreen, 64)
              [] c.level = "Caret" -> 2
              [] c.level = "Document" -> AlignUp(linesInDoc, 64)
              [] OTHER -> 0
    IN  IF lengthForLevel # c.size
        THEN [c EXCEPT !.allInvalidated = FALSE, !.size = lengthForLevel,
                       !.cache = Resized(@, lengthForLevel)]
        ELSE c
Deallocate(c) == [c EXCEPT !.cache = <<>>, !.size = 0, !.lastCaretSlot = SIZE_MAX, !.ret = {}]
LineLayoutCacheInvalidate(c, validity_) ==
    IF c.size # 0 /\ ~c.allInvalidated
    THEN [c EXCEPT !.cache = [i \in DOMAIN @ |-> LineLayoutInvalidate(@[i], validity_)],
                   !.allInvalidated = IF validity_ = "invalid" THEN TRUE ELSE @]
    ELSE c
LineLayoutCacheSetLevel(c, level_) ==
    IF c.level # level_
    THEN [c EXCEPT !.level = level_, !.allInvalidated = FALSE, !.cache = <<>>, !.size = 0,
                   !.lastCaretSlot = SIZE_MAX, !.ret = {}]
    ELSE [c EXCEPT !.ret = {}]
\* std::swap of two slots.
SwapSlots(cache, i, j) ==
    LET other(k) == IF k = i THEN j ELSE IF k = j THEN i ELSE k
    IN  [k \in {other(n) : n \in DOMAIN cache} |-> cache[other(k)]]
\* The slot of a line at level Page, with the caret slot kept.  With lastCaretSlot 0 and a null
\* pointer in slot 0 the read of cache[0]->lineNumber is of no object: nullRead tells whether
\* what it reads equals lineCaret.
PageSlot(c, lineNumber, lineCaret, topLine, nullRead) ==
    LET diff == IF lineNumber < topLine THEN topLine - lineNumber ELSE lineNumber - topLine
        gap == c.size \div 2
        pos == 1 + (lineNumber % gap) + (IF diff < gap THEN 0 ELSE gap)
        caretLineInSlot0 == IF 0 \in DOMAIN c.cache THEN c.cache[0].lineNumber = lineCaret ELSE nullRead
    IN  IF lineNumber = lineCaret
        THEN IF c.lastCaretSlot = 0 /\ caretLineInSlot0
             THEN [c |-> c, pos |-> 0]
             ELSE [c |-> [c EXCEPT !.lastCaretSlot = pos], pos |-> pos]
        ELSE IF pos = c.lastCaretSlot
             THEN [c |-> [c EXCEPT !.lastCaretSlot = 0, !.cache = SwapSlots(@, 0, pos)], pos |-> pos]
             ELSE [c |-> c, pos |-> pos]
\* The layout in the slot is kept if it can hold the line, and made anew if not.
Placed(c, pos, lineNumber, maxChars) ==
    LET fresh == MapPut(c.cache, pos, LineLayout(lineNumber, maxChars))
        cache == IF pos \in DOMAIN c.cache
                 THEN IF CanHold(c.cache[pos], lineNumber, maxChars) THEN c.cache ELSE fresh
                 ELSE fresh
    IN  [c EXCEPT !.cache = cache,
                  !.ret = {[pos |-> pos, lineNumber |-> lineNumber, maxChars |-> maxChars]}]
Retrieve(c, lineNumber, lineCaret, maxChars, styleClock_, linesOnScreen, linesInDoc, topLine, nullRead) ==
    LET allocated == AllocateForLevel(c, linesOnScreen, linesInDoc)
        clocked == IF allocated.styleClock # styleClock_
                   THEN [LineLayoutCacheInvalidate(allocated, "checkTextAndStyle") EXCEPT !.styleClock = styleClock_]
                   ELSE allocated
        valid == [clocked EXCEPT !.allInvalidated = FALSE]
    IN  CASE c.level = "Page" ->
                LET slot == PageSlot(valid, lineNumber, lineCaret, topLine, nullRead)
                IN  Placed(slot.c, slot.pos, lineNumber, maxChars)
          [] c.level = "Caret" -> Placed(valid, IF lineNumber # lineCaret THEN 1 ELSE 0, lineNumber, maxChars)
          [] c.level = "Document" -> Placed(valid, lineNumber, lineNumber, maxChars)

\* ------------------------------------------------------------ BreakFinder (EditModel.cxx)
\* A laid-out line is its bytes and their styles, both counted from position 0, and its edge
\* column; past its last byte the buffer holds NUL.  segments lists what Next has returned as
\* <<start, length>>, firstBreak is nextBreak as constructed.
CharOfLine(b, p) == IF p < Len(b.chars) THEN b.chars[p + 1] ELSE 0
StyleOfLine(b, p) == IF p < Len(b.styles) THEN b.styles[p + 1] ELSE 0
lengthStartSubdivision == 300
lengthEachSubdivision == 100
NoSubBreak == 0 - 1
InsertAlways(b, val) ==
    IF val > b.nextBreak THEN [b EXCEPT !.selAndEdge = Append(@, val)] ELSE b
\* Keep selAndEdge sorted and without repeats: val goes before the first element not below it.
Insert(b, val) ==
    IF val > b.nextBreak
    THEN LET below == SelectSeq(b.selAndEdge, LAMBDA e : e < val)
             notBelow == SelectSeq(b.selAndEdge, LAMBDA e : ~(e < val))
         IN  IF notBelow = <<>> THEN [b EXCEPT !.selAndEdge = Append(@, val)]
             ELSE IF Head(notBelow) # val THEN [b EXCEPT !.selAndEdge = below \o <<val>> \o notBelow]
             ELSE b
    ELSE b
RECURSIVE InsertAll(_, _)
InsertAll(b, vals) == IF vals = <<>> THEN b ELSE InsertAll(Insert(b, Head(vals)), Tail(vals))
\* Back from the first visible position to a style break: the last position up to nextBreak
\* that starts the range or a style.
BackToStyleBreak(b) ==
    LET stops == {p \in b.lineRange.start..b.nextBreak :
                     p = b.lineRange.start \/ StyleOfLine(b, p) # StyleOfLine(b, p - 1)}
    IN  [b EXCEPT !.nextBreak = CHOOSE p \in stops : \A q \in stops : q <= p]
\* The constructor: found is the first visible position (lineRange.start, or what
\* LineLayout::FindBefore gives for a scrolled line), breaks the ends of the selection portions
\* and of the indicator runs on the line, in the order they are inserted.
BreakFinder(chars, styles, edgeColumn, lineRange_, found, breaks) ==
    LET fresh == [chars |-> chars, styles |-> styles, lineRange |-> lineRange_,
                  nextBreak |-> found, saeCurrentPos |-> 0, saeNext |-> 0,
                  subBreak |-> NoSubBreak, selAndEdge |-> <<>>,
                  firstBreak |-> found, segments |-> <<>>, built |-> TRUE]
        first == BackToStyleBreak(fresh)
        edges == Insert(Insert(InsertAll(first, breaks), edgeColumn), lineRange_.end)
    IN  [edges EXCEPT !.saeNext = IF edges.selAndEdge # <<>> THEN edges.selAndEdge[1] ELSE 0 - 1,
                      !.firstBreak = first.nextBreak]
BreakFinderMore(b) == b.subBreak >= 0 \/ b.nextBreak < b.lineRange.end
\* SpecialRepresentations::MayContains.
MayContains(r, ch) == ch \in DOMAIN r.startByteHasReprs /\ r.startByteHasReprs[ch] # 0
\* Document::SafeSegment: where a long run may be cut within its first lengthSegment bytes,
\* after its last space or else before the last byte.
SafeSegment(b, from, lengthSegment) ==
    LET spaces == {i \in 1..(lengthSegment - 1) : CharOfLine(b, from + i) = 32}
    IN  IF spaces # {} THEN CHOOSE i \in spaces : \A j \in spaces : j <= i
        ELSE lengthSegment - 1
\* The loop on selAndEdge in Next: on to the first break past nextBreak.
RECURSIVE AdvanceEdge(_)
AdvanceEdge(b) ==
    IF b.nextBreak >= b.saeNext /\ b.saeNext < b.lineRange.end
    THEN LET current == b.saeCurrentPos + 1
         IN  AdvanceEdge([b EXCEPT !.saeCurrentPos = current,
                                   !.saeNext = IF current < Len(b.selAndEdge)
                                               THEN b.selAndEdge[current + 1]
                                               ELSE b.lineRange.end])
    ELSE b
Returned(b, start, length) == [b EXCEPT !.segments = Append(@, <<start, length>>)]
\* What the loop of Next finds at position p: the width of the character there, its
\* representation, and whether a style starts there.
CharWidthAt(b, r, p) ==
    IF MayContains(r, CharOfLine(b, p)) /\ CharOfLine(b, p) = 13 /\ r.crlf /\ CharOfLine(b, p + 1) = 10
    THEN 2 ELSE 1
ReprAt(b, r, p) ==
    IF MayContains(r, CharOfLine(b, p))
    THEN GetRepresentation(r, [i \in 1..CharWidthAt(b, r, p) |-> CharOfLine(b, p + i - 1)])
    ELSE NoRepresentation
StyleBreakAt(b, p) == p > 0 /\ StyleOfLine(b, p) # StyleOfLine(b, p - 1)
BreakAt(b, r, p) == StyleBreakAt(b, p) \/ ReprAt(b, r, p) # NoRepresentation \/ p = b.saeNext
\* The loop of Next from prev on; done tells that a segment was returned from inside it.  At
\* prev a break with a representation is returned at once, and any other break there only
\* moves saeNext on; the loop then steps over the characters up to the next break, or to the
\* end of the range.
NextScan(b, r, prev) ==
    IF prev < b.lineRange.end
    THEN IF BreakAt(b, r, prev) /\ ReprAt(b, r, prev) # NoRepresentation
         THEN LET moved == [AdvanceEdge(b) EXCEPT !.nextBreak = prev + CharWidthAt(b, r, prev)]
              IN  IF moved.nextBreak - prev < lengthStartSubdivision
                  THEN [b |-> Returned(moved, prev, moved.nextBreak - prev), done |-> TRUE]
                  ELSE [b |-> moved, done |-> FALSE]
         ELSE LET edged == IF BreakAt(b, r, prev) THEN AdvanceEdge(b) ELSE b
                  breaks == {p \in (prev + 1)..(b.lineRange.end - 1) : BreakAt(edged, r, p)}
              IN  IF breaks = {}
                  THEN [b |-> [edged EXCEPT !.nextBreak = b.lineRange.end], done |-> FALSE]
                  ELSE LET p == CHOOSE q \in breaks : \A o \in breaks : q <= o
                           moved == AdvanceEdge([edged EXCEPT !.nextBreak = p])
                       IN  IF p - prev < lengthStartSubdivision
                           THEN [b |-> Returned(moved, prev, p - prev), done |-> TRUE]
                           ELSE [b |-> moved, done |-> FALSE]
    ELSE [b |-> b, done |-> FALSE]
\* Splitting up a long run from subBreak to nextBreak.
Subdivide(b) ==
    LET startSegment == b.subBreak
    IN  IF b.nextBreak - b.subBreak <= lengthEachSubdivision
        THEN Returned([b EXCEPT !.subBreak = NoSubBreak], startSegment, b.nextBreak - startSegment)
        ELSE LET subBreak == b.subBreak + SafeSegment(b, b.subBreak, lengthEachSubdivision)
             IN  IF subBreak >= b.nextBreak
                 THEN Returned([b EXCEPT !.subBreak = NoSubBreak], startSegment, b.nextBreak - startSegment)
                 ELSE Returned([b EXCEPT !.subBreak = subBreak], startSegment, subBreak - startSegment)
BreakFinderNext(b, r) ==
    IF b.subBreak = NoSubBreak
    THEN LET prev == b.nextBreak
             scan == NextScan(b, r, prev)
         IN  IF scan.done THEN scan.b
             ELSE IF scan.b.nextBreak - prev < lengthStartSubdivision
             THEN Returned(scan.b, prev, scan.b.nextBreak - prev)
             ELSE Subdivide([scan.b EXCEPT !.subBreak = prev])
    ELSE Subdivide(b)

\* ------------------------------------------------------------ the editor at rest
\* No BreakFinder is at work.
NoBreakFinder ==
    [chars |-> <<>>, styles |-> <<>>, lineRange |-> [start |-> 0, end |-> 0],
     nextBreak |-> 0, saeCurrentPos |-> 0, saeNext |-> 0, subBreak |-> NoSubBreak,
     selAndEdge |-> <<>>, firstBreak |-> 0, segments |-> <<>>, built |-> FALSE]
\* The lexer specifications leave the editor's objects as constructed.
EditorIdle ==
    /\ reprs = NewSpecialRepresentations
    /\ pcache = NewPositionCache
    /\ llc = NewLineLayoutCache
    /\ bf = NoBreakFinder

\* The state before any pass has run.
IdlePass == StyleContext(0, 0, "DEFAULT", BlankStyles, BlankLineStates)

\* The host's call of a Colourizer: the whole document, its first lines up to the split, or the
\* rest from the split on with the style recorded just before it (LexInterface::Colourise).
Lexing == phase \in {"full", "first", "second", "relex"}
Resuming == phase \in {"second", "relex"}
PassStart == IF Resuming THEN split ELSE 0
PassLength == IF phase = "full" THEN Len(doc) ELSE IF phase = "first" THEN split ELSE Len(doc) - split
PassInitStyle == IF Resuming THEN StyleAt(lx, split - 1) ELSE "DEFAULT"
PassStyles == IF Resuming THEN lx.styles ELSE BlankStyles
PassLineStates == IF Resuming THEN lx.ls ELSE BlankLineStates

\* ============================================================ Asymptote
AsyKeywords == {<<"i","m","p","o","r","t">>, <<"i","n","c","l","u","d","e">>, <<"n","e","w">>,
                <<"s","t","r","u","c","t">>, <<"r","e","t","u","r","n">>, <<"i","f">>}
\* The lists are the host's; they overlap here (`if` is in all four, `int` in the last three,
\* `path` in the last two), so that the order of the tests on them shows.
AsyTypes == {<<"i","n","t">>, <<"r","e","a","l">>, <<"i","f">>}
AsyStructs == {<<"p","a","t","h">>, <<"i","f">>, <<"i","n","t">>}
AsyConstants == {<<"p","i">>, <<"i","f">>, <<"i","n","t">>, <<"p","a","t","h">>}

AsyIsSpaceEquiv(state) == state \in {"DEFAULT", "COMMENTLINE", "COMMENTBLOCK", "TASKMARKER"}

AsyResetEscapeState(s, state, chNext) ==
    IF IsEOLChar(chNext) THEN [ok |-> FALSE, s |-> s]
    ELSE [ok |-> TRUE,
          s |-> [s EXCEPT !.escSeq =
                    IF IsOctalDigit(chNext) THEN [outerState |-> state, digitsLeft |-> 3, numBase |-> 8]
                    ELSE IF chNext \in {"x", "X"} THEN [outerState |-> state, digitsLeft |-> 3, numBase |-> 16]
                    ELSE [outerState |-> state, digitsLeft |-> 1, numBase |-> @.numBase]]]

\* atEscapeEnd without the test of the character: only the counter ends the escape.
AsyAtEscapeEndCounted(s, ch) == s.escSeq.digitsLeft - 1 <= 0

\* atEscapeEnd: the counter is decremented, then tested.
AsyAtEscapeEnd(s, ch) == s.escSeq.digitsLeft - 1 <= 0 \/ ~IsADigitBase(ch, s.escSeq.numBase)
AsyEscapeStep(s) == [s EXCEPT !.escSeq.digitsLeft = @ - 1]

\* The end of an escape that takes the character that ended it.
AsyEscapeEndForward(s) == Continue(ForwardSetState(AsyEscapeStep(s), s.escSeq.outerState))

\* The end of an escape, `sc.SetState(escSeq.outerState); continue;`: lines 173-176.
AsyEscapeEnd(s) == Continue(SetState(AsyEscapeStep(s), s.escSeq.outerState))

\* The end of an identifier with the type list tested before the keyword list.
AsyClassifyTypeFirst(s) ==
    LET w == GetCurrent(s, 128)
        chNext == GetDocNextChar(s)
        s1 == IF w \in AsyTypes THEN ChangeState(s, "TYPE")
              ELSE IF w \in AsyKeywords THEN
                  LET k == ChangeState(s, "WORD") IN
                  IF w \in {<<"i","m","p","o","r","t">>, <<"i","n","c","l","u","d","e">>}
                  THEN [k EXCEPT !.lineStateLineType = 2]
                  ELSE IF w \in {<<"n","e","w">>, <<"s","t","r","u","c","t">>}
                  THEN [k EXCEPT !.kwType = "Struct"]
                  ELSE IF w = <<"r","e","t","u","r","n">>
                  THEN [k EXCEPT !.kwType = "Return"]
                  ELSE k
              ELSE IF s.kwType = "Struct" \/ w \in AsyStructs THEN ChangeState(s, "STRUCT")
              ELSE IF w \in AsyConstants THEN ChangeState(s, "CONSTANT")
              ELSE IF Ch(s) # "." THEN
                  IF chNext = "(" THEN
                      IF s.kwType # "Return" /\ (IsIdentifierChar(s.chBefore) \/ s.chBefore = "]")
                      THEN ChangeState(s, "FUNCTION_DEFINITION")
                      ELSE ChangeState(s, "FUNCTION")
                  ELSE IF Match2(s, "[", "]") \/ IsIdentifierStart(chNext)
                  THEN ChangeState(s, "STRUCT")
                  ELSE s
              ELSE s
        s2 == IF s1.state # "WORD" THEN [s1 EXCEPT !.kwType = "None"] ELSE s1
    IN SetState(s2, "DEFAULT")

\* The end of an identifier: lines 94-132.
AsyClassify(s) ==
    LET w == GetCurrent(s, 128)
        chNext == GetDocNextChar(s)
        s1 == IF w \in AsyKeywords THEN
                  LET k == ChangeState(s, "WORD") IN
                  IF w \in {<<"i","m","p","o","r","t">>, <<"i","n","c","l","u","d","e">>}
                  THEN [k EXCEPT !.lineStateLineType = 2]
                  ELSE IF w \in {<<"n","e","w">>, <<"s","t","r","u","c","t">>}
                  THEN [k EXCEPT !.kwType = "Struct"]
                  ELSE IF w = <<"r","e","t","u","r","n">>
                  THEN [k EXCEPT !.kwType = "Return"]
                  ELSE k
              ELSE IF w \in AsyTypes THEN ChangeState(s, "TYPE")
              ELSE IF s.kwType = "Struct" \/ w \in AsyStructs THEN ChangeState(s, "STRUCT")
              ELSE IF w \in AsyConstants THEN ChangeState(s, "CONSTANT")
              ELSE IF Ch(s) # "." THEN
                  IF chNext = "(" THEN
                      IF s.kwType # "Return" /\ (IsIdentifierChar(s.chBefore) \/ s.chBefore = "]")
                      THEN ChangeState(s, "FUNCTION_DEFINITION")
                      ELSE ChangeState(s, "FUNCTION")
                  ELSE IF Match2(s, "[", "]") \/ IsIdentifierStart(chNext)
                  THEN ChangeState(s, "STRUCT")
                  ELSE s
              ELSE s
        s2 == IF s1.state # "WORD" THEN [s1 EXCEPT !.kwType = "None"] ELSE s1
    IN SetState(s2, "DEFAULT")

\* The switch on the current state: lines 82-178.
AsyTerminate(s) ==
    CASE s.state = "OPERATOR" -> SetState(s, "DEFAULT")
      [] s.state = "NUMBER" ->
            IF ~(IsADigit(Ch(s)) \/ (Ch(s) = "." /\ IsADigit(ChNext(s)))) THEN SetState(s, "DEFAULT") ELSE s
      [] s.state = "IDENTIFIER" ->
            IF ~IsIdentifierChar(Ch(s)) THEN AsyClassify(s) ELSE s
      [] s.state = "COMMENTLINE" ->
            IF AtLineStart(s) THEN SetState(s, "DEFAULT") ELSE s
      [] s.state = "COMMENTBLOCK" ->
            IF Match2(s, "*", "/") THEN ForwardSetState(Forward(s), "DEFAULT") ELSE s
      [] s.state = "STRING_DQ" ->
            IF Ch(s) = "\\" THEN
                IF ChNext(s) \in {"\\", "\""}
                THEN Forward(SetState([s EXCEPT !.escSeq.outerState = "STRING_DQ", !.escSeq.digitsLeft = 1],
                                      "ESCAPECHAR"))
                ELSE s
            ELSE IF Ch(s) = "\"" THEN ForwardSetState(s, "DEFAULT")
            ELSE s
      [] s.state = "STRING_SQ" ->
            IF Ch(s) = "\\" THEN
                LET r == AsyResetEscapeState(s, s.state, ChNext(s)) IN
                IF r.ok THEN Forward(SetState(r.s, "ESCAPECHAR")) ELSE r.s
            ELSE IF Ch(s) = "'" THEN ForwardSetState(s, "DEFAULT")
            ELSE s
      [] s.state = "ESCAPECHAR" ->
            IF AsyAtEscapeEnd(s, Ch(s)) THEN AsyEscapeEnd(s) ELSE AsyEscapeStep(s)
      [] OTHER -> s

\* A new token in the DEFAULT state: lines 180-201.
AsyEnter(s) ==
    IF s.state # "DEFAULT" THEN s
    ELSE IF Match2(s, "/", "/") THEN
        SetState(IF s.visibleChars = 0 THEN [s EXCEPT !.lineStateLineType = 1] ELSE s, "COMMENTLINE")
    ELSE IF Match2(s, "/", "*") THEN Forward(SetState(s, "COMMENTBLOCK"))
    ELSE IF Ch(s) = "\"" THEN SetState(s, "STRING_DQ")
    ELSE IF Ch(s) = "'" THEN SetState(s, "STRING_SQ")
    ELSE IF IsADigit(Ch(s)) THEN SetState(s, "NUMBER")
    ELSE IF IsIdentifierStart(Ch(s)) THEN SetState([s EXCEPT !.chBefore = s.chPrevNonWhite], "IDENTIFIER")
    ELSE IF IsAGraphic(Ch(s)) /\ Ch(s) # "\\" THEN SetState(s, "OPERATOR")
    ELSE s

\* The end of the loop body: visible characters, the line state at a line end, Forward: lines 203-215.
AsyLineEnd(s) ==
    LET s1 == IF ~isspacechar(Ch(s))
              THEN [s EXCEPT !.visibleChars = @ + 1,
                             !.chPrevNonWhite = IF ~AsyIsSpaceEquiv(s.state) THEN Ch(s) ELSE @]
              ELSE s
        s2 == IF AtLineEnd(s1)
              THEN [SetLineState(s1, CurrentLine(s1), s1.lineStateLineType)
                        EXCEPT !.lineStateLineType = 0, !.visibleChars = 0, !.kwType = "None"]
              ELSE s1
    IN Forward(s2)

\* One iteration of the while loop of ColouriseAsyDoc.
AsyLoopBody(s) ==
    LET s1 == AsyTerminate([s EXCEPT !.cont = FALSE]) IN
    IF s1.cont THEN s1 ELSE AsyLineEnd(AsyEnter(s1))

\* The locals and the StyleContext at the head of ColouriseAsyDoc: lines 69-79.
AsyBegin(startPos, length, initStyle, styles, ls) ==
    Merge(StyleContext(startPos, length, initStyle, styles, ls),
          [lineStateLineType |-> 0, kwType |-> "None", visibleChars |-> 0, chBefore |-> NUL,
           chPrevNonWhite |-> NUL,
           escSeq |-> [outerState |-> "DEFAULT", digitsLeft |-> 0, numBase |-> 0]])

AsyLines == {<<>>, <<"a">>, <<"f","(",")">>, <<"/","/","c">>, <<"/","*","c">>, <<"*","/"," ","g","(">>,
             <<"'","\\","1","'">>, <<"r","e","t","u","r","n"," ","h","(","1",")">>,
             <<"s","t","r","u","c","t"," ","S","{">>, <<"}">>, <<"{">>, <<"\"","s">>, <<"p","\"",";">>,
             <<"i","m","p","o","r","t"," ","m",";">>, <<"i","n","t","[","]">>}

InitAsy ==
    /\ lang = "asy"
    /\ doc \in DocsOf(AsyLines)
    /\ phase = "full" /\ pc = "start" /\ split = 0
    /\ lx = IdlePass
    /\ full = IdlePass
    /\ EditorIdle

ColouriseAsyDocBegin ==
    /\ lang = "asy" /\ pc = "start" /\ Lexing
    /\ lx' = AsyBegin(PassStart, PassLength, PassInitStyle, PassStyles, PassLineStates)
    /\ pc' = "loop"
    /\ UNCHANGED <<lang, doc, phase, split, full, editor>>

ColouriseAsyDocStep ==
    /\ lang = "asy" /\ pc = "loop" /\ Lexing /\ More(lx)
    /\ lx' = AsyLoopBody(lx)
    /\ UNCHANGED <<lang, doc, phase, pc, split, full, editor>>

ColouriseAsyDocComplete ==
    /\ lang = "asy" /\ pc = "loop" /\ Lexing /\ ~More(lx)
    /\ lx' = Complete(lx)
    /\ pc' = "done"
    /\ UNCHANGED <<lang, doc, phase, split, full, editor>>

\* ============================================================ Dart
\* Helpers of LexerUtils.h and CharacterSet.h used by the Dart and F# lexers.
IsDecimalNumber(chPrev, ch, chNext) ==
    \/ IsIdentifierChar(ch)
    \/ (ch = "." /\ chNext # ".")
    \/ (ch \in {"+", "-"} /\ chPrev \in {"e", "E"})
IsJumpLabelPrevChar(ch) == ch \in {NUL, ";", ":", "}", ")"}

\* HighlightTaskMarker colours an upper-case task word (TODO, FIXME) inside a comment; the
\* documents modelled carry none, so it changes nothing and returns false.
HighlightTaskMarker(s) == FALSE

\* LookbackNonWhite: the last character before startPos that is not blank and whose style is
\* above maxSpaceStyle, NUL if there is none.
RECURSIVE LookbackNonWhite(_, _, _)
LookbackNonWhite(styles, p, spaceStyles) ==
    IF p <= 0 THEN NUL
    ELSE IF styles[p] \notin spaceStyles /\ ~IsWhiteSpace(doc[p]) THEN doc[p]
    ELSE LookbackNonWhite(styles, p - 1, spaceStyles)

DartMaxKeywordSize == 20
DartNestedStateValueBit == 3
DartMaxNestedStateCount == 4
DartNestedStateCountBit == 3

DartKeywords == {<<"c","l","a","s","s">>, <<"n","e","w">>, <<"r","e","t","u","r","n">>,
                 <<"i","m","p","o","r","t">>, <<"i","f">>, <<"l","e","t">>, <<"e","n","u","m">>,
                 <<"b","r","e","a","k">>}
DartTypes == {<<"i","n","t">>}
DartClasses == {<<"L","i","s","t">>}
DartEnumerations == {<<"C","o","l","o","r">>}

IsDartIdentifierStart(ch) == IsIdentifierStart(ch) \/ ch = "$"
IsDartIdentifierChar(ch) == IsIdentifierChar(ch) \/ ch = "$"
IsDefinableOperator(ch) == ch \in {"+", "-", "*", "/", "%", "~", "&", "|", "^", "<", ">", "=", "[", "]"}
DartSpaceStyles == {"DEFAULT", "COMMENTLINE", "COMMENTLINEDOC", "COMMENTBLOCK", "COMMENTBLOCKDOC", "TASKMARKER"}
DartIsSpaceEquiv(state) == state \in DartSpaceStyles
DartStringStates == {"STRING_SQ", "STRING_DQ", "TRIPLE_STRING_SQ", "TRIPLE_STRING_DQ",
                     "RAWSTRING_SQ", "RAWSTRING_DQ", "TRIPLE_RAWSTRING_SQ", "TRIPLE_RAWSTRING_DQ"}
\* state < SCE_DART_RAWSTRING_SQ, for a string state
DartIsCookedString(state) == state \in {"STRING_SQ", "STRING_DQ", "TRIPLE_STRING_SQ", "TRIPLE_STRING_DQ"}
IsTripleString(state) ==
    state \in {"TRIPLE_STRING_SQ", "TRIPLE_STRING_DQ", "TRIPLE_RAWSTRING_SQ", "TRIPLE_RAWSTRING_DQ"}
GetStringQuote(state) ==
    IF state \in {"STRING_SQ", "TRIPLE_STRING_SQ", "RAWSTRING_SQ", "TRIPLE_RAWSTRING_SQ"} THEN "'" ELSE "\""
\* SCE_DART_TRIPLE_x - SCE_DART_x and SCE_DART_xDOC - SCE_DART_x, added to a state
DartTriple(state) ==
    CASE state = "STRING_SQ" -> "TRIPLE_STRING_SQ" [] state = "STRING_DQ" -> "TRIPLE_STRING_DQ"
      [] state = "RAWSTRING_SQ" -> "TRIPLE_RAWSTRING_SQ" [] state = "RAWSTRING_DQ" -> "TRIPLE_RAWSTRING_DQ"
      [] OTHER -> state
DartDocComment(state) ==
    CASE state = "COMMENTLINE" -> "COMMENTLINEDOC" [] state = "COMMENTBLOCK" -> "COMMENTBLOCKDOC"
      [] OTHER -> state

\* The code of a nested state in the line state: state - DefaultNestedStateBaseStyle, 0 for DEFAULT.
DartNestedCode(state) ==
    CASE state = "STRING_SQ" -> 1 [] state = "STRING_DQ" -> 2
      [] state = "TRIPLE_STRING_SQ" -> 3 [] state = "TRIPLE_STRING_DQ" -> 4 [] OTHER -> 0
DartNestedStyle(code) ==
    CASE code = 1 -> "STRING_SQ" [] code = 2 -> "STRING_DQ"
      [] code = 3 -> "TRIPLE_STRING_SQ" [] code = 4 -> "TRIPLE_STRING_DQ" [] OTHER -> "DEFAULT"

\* PackLineState: the count of nested states in the low bits, then the codes of the innermost
\* DartMaxNestedStateCount of them, outermost of those first.
RECURSIVE PackCodes(_)
PackCodes(states) ==
    IF Len(states) = 0 THEN 0
    ELSE DartNestedCode(states[1]) + ShiftLeft(PackCodes(Tail(states)), DartNestedStateValueBit)
PackLineState(states) ==
    LET count == Min(Len(states), Pow2(DartNestedStateCountBit) - 1)
        kept == Min(count, DartMaxNestedStateCount)
    IN count + ShiftLeft(PackCodes(SubSeq(states, Len(states) - kept + 1, Len(states))),
                         DartNestedStateCountBit)
RECURSIVE UnpackCodes(_, _)
UnpackCodes(word, count) ==
    IF count = 0 THEN <<>>
    ELSE <<DartNestedStyle(BitMask(word, DartNestedStateValueBit))>>
             \o UnpackCodes(ShiftRight(word, DartNestedStateValueBit), count - 1)
UnpackLineState(lineState) ==
    UnpackCodes(ShiftRight(lineState, DartNestedStateCountBit),
                Min(BitMask(lineState, DartNestedStateCountBit), DartMaxNestedStateCount))

\* resetEscapeState without the test for a line end after the backslash.
DartResetEscapeAlways(s, state, chNext) ==
    [ok |-> TRUE,
     s |-> [s EXCEPT !.escSeq = [outerState |-> state, brace |-> FALSE,
                                 digitsLeft |-> IF chNext = "x" THEN 3 ELSE IF chNext = "u" THEN 5 ELSE 1]]]

DartResetEscapeState(s, state, chNext) ==
    IF IsEOLChar(chNext) THEN [ok |-> FALSE, s |-> s]
    ELSE [ok |-> TRUE,
          s |-> [s EXCEPT !.escSeq = [outerState |-> state, brace |-> FALSE,
                                      digitsLeft |-> IF chNext = "x" THEN 3 ELSE IF chNext = "u" THEN 5 ELSE 1]]]
\* atEscapeEnd without the counter: the escape lasts as long as hex digits follow.
DartAtEscapeEndUncounted(s, ch) == ~IsHexDigit(ch)

DartAtEscapeEnd(s, ch) == s.escSeq.digitsLeft - 1 <= 0 \/ ~IsHexDigit(ch)

DartTypeKeywords == {<<"c","l","a","s","s">>, <<"e","x","t","e","n","d","s">>,
                     <<"i","m","p","l","e","m","e","n","t","s">>, <<"n","e","w">>, <<"t","h","r","o","w">>,
                     <<"w","i","t","h">>, <<"a","s">>, <<"i","s">>, <<"o","n">>}
DartKwStyle(kwType) == CASE kwType = "Label" -> "LABEL" [] kwType = "Class" -> "CLASS" [] OTHER -> "ENUM"
\* kwType > KeywordType::None && kwType < KeywordType::Return
DartKwPending(kwType) == kwType \in {"Label", "Class", "Enum"}

\* A keyword: lines 362-384.
DartKeyword(s, w, state) ==
    LET k == ChangeState(s, "WORD")
        k1 == IF state = "SIMPLE_IDENTIFIER" THEN [k EXCEPT !.kwType = "None"]
              ELSE IF w \in {<<"i","m","p","o","r","t">>, <<"p","a","r","t">>}
              THEN (IF k.visibleChars = LengthCurrent(k) THEN [k EXCEPT !.lineStateLineType = 2] ELSE k)
              ELSE IF w \in DartTypeKeywords THEN [k EXCEPT !.kwType = "Class"]
              ELSE IF w = <<"e","n","u","m">> THEN [k EXCEPT !.kwType = "Enum"]
              ELSE IF w \in {<<"b","r","e","a","k">>, <<"c","o","n","t","i","n","u","e">>}
              THEN [k EXCEPT !.kwType = "Label"]
              ELSE IF w \in {<<"r","e","t","u","r","n">>, <<"a","w","a","i","t">>, <<"y","i","e","l","d">>}
              THEN [k EXCEPT !.kwType = "Return"]
              ELSE k
    IN IF DartKwPending(k1.kwType) /\ ~IsDartIdentifierStart(GetLineNextChar(k1, FALSE))
       THEN [k1 EXCEPT !.kwType = "None"]
       ELSE k1

\* An identifier in no word list and not before ':' or '.': lines 397-423.
DartHeuristic(s) ==
    IF DartKwPending(s.kwType) THEN ChangeState(s, DartKwStyle(s.kwType))
    ELSE LET chNext == GetLineNextChar(s, Ch(s) = "?") IN
         IF chNext = "(" THEN
             IF s.kwType # "Return" /\ (IsDartIdentifierChar(s.chBefore) \/ s.chBefore = "]")
             THEN ChangeState(s, "FUNCTION_DEFINITION")
             ELSE ChangeState(s, "FUNCTION")
         ELSE IF (s.chBeforeIdentifier = "<" /\ chNext \in {">", "<"}) \/ IsDartIdentifierStart(chNext)
         THEN ChangeState(s, "CLASS")
         ELSE s

\* The end of an identifier: lines 350-434.
DartIdentifierEnd(s) ==
    IF s.state \in {"METADATA", "SYMBOL_IDENTIFIER"} THEN
        IF Ch(s) = "."
        THEN Continue(ForwardSetState(SetState(s, "OPERATOR"), s.state))
        ELSE SetState(s, "DEFAULT")
    ELSE
        LET w == GetCurrent(s, DartMaxKeywordSize)
            state == s.state
            s1 == IF w \in DartKeywords THEN DartKeyword(s, w, state)
                  ELSE IF w \in DartTypes THEN ChangeState(s, "WORD2")
                  ELSE IF w \in DartClasses THEN ChangeState(s, "CLASS")
                  ELSE IF w \in DartEnumerations THEN ChangeState(s, "ENUM")
                  ELSE IF state = "IDENTIFIER" /\ Ch(s) = ":" THEN
                      IF s.chBefore \in {",", "{", "("} THEN ChangeState(s, "KEY")
                      ELSE IF IsJumpLabelPrevChar(s.chBefore) THEN ChangeState(s, "LABEL")
                      ELSE s
                  ELSE IF state = "IDENTIFIER" /\ Ch(s) # "." THEN DartHeuristic(s)
                  ELSE s
            s2 == IF s1.state # "WORD" /\ Ch(s1) # "." THEN [s1 EXCEPT !.kwType = "None"] ELSE s1
        IN IF state = "SIMPLE_IDENTIFIER"
           THEN Continue(SetState(s2, s2.escSeq.outerState))
           ELSE SetState(s2, "DEFAULT")

\* A block comment that does not nest: the first closer ends it.
DartBlockCommentFlat(s) ==
    IF Match2(s, "*", "/") THEN ForwardSetState([Forward(s) EXCEPT !.commentLevel = 0], "DEFAULT")
    ELSE IF HighlightTaskMarker(s) THEN Continue(s)
    ELSE s

\* Inside a block comment: lines 452-466.
DartBlockComment(s) ==
    IF Match2(s, "*", "/") THEN
        LET s1 == [Forward(s) EXCEPT !.commentLevel = @ - 1] IN
        IF s1.commentLevel = 0 THEN ForwardSetState(s1, "DEFAULT") ELSE s1
    ELSE IF Match2(s, "/", "*") THEN [Forward(s) EXCEPT !.commentLevel = @ + 1]
    ELSE IF HighlightTaskMarker(s) THEN Continue(s)
    ELSE s

\* Inside a string: lines 476-512.
DartString(s) ==
    IF AtLineStart(s) /\ ~IsTripleString(s.state) THEN SetState(s, "DEFAULT")
    ELSE IF Ch(s) = "\\" /\ DartIsCookedString(s.state) THEN
        LET r == DartResetEscapeState(s, s.state, ChNext(s)) IN
        IF r.ok THEN
            LET s1 == Forward(SetState(r.s, "ESCAPECHAR")) IN
            IF Match2(s1, "u", "{")
            THEN Forward([s1 EXCEPT !.escSeq.brace = TRUE, !.escSeq.digitsLeft = 7])
            ELSE s1
        ELSE r.s
    ELSE IF Ch(s) = "$" /\ DartIsCookedString(s.state) THEN
        LET s1 == Forward(SetState([s EXCEPT !.escSeq.outerState = s.state], "OPERATOR2")) IN
        IF Ch(s1) = "{" THEN [s1 EXCEPT !.nestedState = Append(@, s1.escSeq.outerState)]
        ELSE IF Ch(s1) # "$" /\ IsDartIdentifierStart(Ch(s1)) THEN SetState(s1, "SIMPLE_IDENTIFIER")
        ELSE Continue(SetState(s1, s1.escSeq.outerState))
    ELSE IF Ch(s) = GetStringQuote(s.state) /\ (~IsTripleString(s.state) \/ MatchNext(s)) THEN
        LET s1 == Forward(IF IsTripleString(s.state) THEN ForwardN(s, 2) ELSE s)
            s2 == IF s1.state \in {"STRING_SQ", "STRING_DQ"} /\ s1.chBefore \in {",", "{"}
                     /\ GetLineNextChar(s1, FALSE) = ":"
                  THEN ChangeState(s1, "KEY")
                  ELSE s1
        IN SetState(s2, "DEFAULT")
    ELSE s

\* The switch on the current state: lines 334-524.
DartTerminate(s) ==
    CASE s.state \in {"OPERATOR", "OPERATOR2"} -> SetState(s, "DEFAULT")
      [] s.state = "NUMBER" ->
            IF ~IsDecimalNumber(ChPrev(s), Ch(s), ChNext(s)) THEN SetState(s, "DEFAULT") ELSE s
      [] s.state \in {"SIMPLE_IDENTIFIER", "IDENTIFIER", "METADATA", "SYMBOL_IDENTIFIER"} ->
            IF ~IsDartIdentifierChar(Ch(s)) \/ (Ch(s) = "$" /\ s.state = "SIMPLE_IDENTIFIER")
            THEN DartIdentifierEnd(s)
            ELSE s
      [] s.state = "SYMBOL_OPERATOR" ->
            IF ~IsDefinableOperator(Ch(s)) THEN SetState(s, "DEFAULT") ELSE s
      [] s.state \in {"COMMENTLINE", "COMMENTLINEDOC"} ->
            IF AtLineStart(s) THEN SetState(s, "DEFAULT") ELSE s
      [] s.state \in {"COMMENTBLOCK", "COMMENTBLOCKDOC"} -> DartBlockComment(s)
      [] s.state \in DartStringStates -> DartString(s)
      [] s.state = "ESCAPECHAR" ->
            LET s1 == [s EXCEPT !.escSeq.digitsLeft = @ - 1] IN
            IF DartAtEscapeEnd(s, Ch(s))
            THEN Continue(SetState(IF s1.escSeq.brace /\ Ch(s1) = "}" THEN Forward(s1) ELSE s1,
                                   s1.escSeq.outerState))
            ELSE s1
      [] OTHER -> s

\* The start of a comment: lines 527-544.
DartCommentStart(s) ==
    LET chNext == ChNext(s)
        s1 == ForwardN(SetState([s EXCEPT !.visibleCharsBefore = s.visibleChars],
                                IF chNext = "/" THEN "COMMENTLINE" ELSE "COMMENTBLOCK"), 2)
        s2 == IF Ch(s1) = chNext /\ ChNext(s1) # chNext THEN ChangeState(s1, DartDocComment(s1.state)) ELSE s1
    IN Continue(IF chNext = "/"
                THEN (IF s2.visibleChars = 0 THEN [s2 EXCEPT !.lineStateLineType = 1] ELSE s2)
                ELSE [s2 EXCEPT !.commentLevel = 1])

\* An operator that takes no part in an interpolation: no brace is pushed or popped.
DartOperatorPlain(s) == SetState(s, "OPERATOR")

\* An operator whose closing brace pops the nested-state stack without looking whether it is
\* empty: the state taken from an empty stack is none of the enumeration.
DartOperatorUnguarded(s) ==
    LET s1 == SetState(s, "OPERATOR") IN
    IF Ch(s1) = "}" THEN
        LET outerState == IF Len(s1.nestedState) # 0 THEN s1.nestedState[Len(s1.nestedState)] ELSE "INVALID" IN
        Continue(ForwardSetState([s1 EXCEPT !.nestedState = SubSeq(@, 1, Len(@) - 1)], outerState))
    ELSE IF Len(s1.nestedState) # 0 THEN
        LET s2 == ChangeState(s1, "OPERATOR2") IN
        IF Ch(s2) = "{" THEN [s2 EXCEPT !.nestedState = Append(@, "DEFAULT")] ELSE s2
    ELSE s1

\* An operator, inside an interpolation a part of it: lines 573-585.
DartOperator(s) ==
    LET s1 == SetState(s, "OPERATOR") IN
    IF Len(s1.nestedState) # 0 THEN
        LET s2 == ChangeState(s1, "OPERATOR2") IN
        IF Ch(s2) = "{" THEN [s2 EXCEPT !.nestedState = Append(@, "DEFAULT")]
        ELSE IF Ch(s2) = "}" THEN
            LET outerState == s2.nestedState[Len(s2.nestedState)] IN
            Continue(ForwardSetState([s2 EXCEPT !.nestedState = SubSeq(@, 1, Len(@) - 1)], outerState))
        ELSE s2
    ELSE s1

\* A new token in the DEFAULT state: lines 526-586.
DartEnter(s) ==
    IF s.state # "DEFAULT" THEN s
    ELSE IF Ch(s) = "/" /\ ChNext(s) \in {"/", "*"} THEN DartCommentStart(s)
    ELSE IF Ch(s) = "r" /\ ChNext(s) \in {"'", "\""} THEN
        LET s1 == Forward(SetState(s, IF ChNext(s) = "'" THEN "RAWSTRING_SQ" ELSE "RAWSTRING_DQ")) IN
        IF MatchNext(s1) THEN ForwardN(ChangeState(s1, DartTriple(s1.state)), 2) ELSE s1
    ELSE IF Ch(s) \in {"'", "\""} THEN
        LET s1 == [SetState(s, IF Ch(s) = "'" THEN "STRING_SQ" ELSE "STRING_DQ")
                       EXCEPT !.chBefore = s.chPrevNonWhite] IN
        IF MatchNext(s1) THEN ForwardN(ChangeState(s1, DartTriple(s1.state)), 2) ELSE s1
    ELSE IF IsNumberStart(Ch(s), ChNext(s)) THEN SetState(s, "NUMBER")
    ELSE IF Ch(s) \in {"@", "#"} /\ IsDartIdentifierStart(ChNext(s)) THEN
        SetState(s, IF Ch(s) = "@" THEN "METADATA" ELSE "SYMBOL_IDENTIFIER")
    ELSE IF IsDartIdentifierStart(Ch(s)) THEN
        SetState([s EXCEPT !.chBefore = s.chPrevNonWhite,
                           !.chBeforeIdentifier = IF s.chPrevNonWhite # "." THEN s.chPrevNonWhite ELSE @],
                 "IDENTIFIER")
    ELSE IF Ch(s) = "#" /\ IsDefinableOperator(ChNext(s)) THEN SetState(s, "SYMBOL_OPERATOR")
    ELSE IF IsAGraphic(Ch(s)) THEN DartOperator(s)
    ELSE s

\* The line state word: lines 595-598.
DartLineState(s) ==
    LET w == BitOr(ShiftLeft(s.commentLevel, 2), s.lineStateLineType) IN
    IF Len(s.nestedState) # 0 THEN BitOr(w, ShiftLeft(PackLineState(s.nestedState), 8)) ELSE w

\* The end of the loop body: lines 588-605.
DartLineEnd(s) ==
    LET s1 == IF ~isspacechar(Ch(s))
              THEN [s EXCEPT !.visibleChars = @ + 1,
                             !.chPrevNonWhite = IF ~DartIsSpaceEquiv(s.state) THEN Ch(s) ELSE @]
              ELSE s
        s2 == IF AtLineEnd(s1)
              THEN [SetLineState(s1, CurrentLine(s1), DartLineState(s1))
                        EXCEPT !.lineStateLineType = 0, !.visibleChars = 0, !.visibleCharsBefore = 0,
                               !.kwType = "None"]
              ELSE s1
    IN Forward(s2)

\* One iteration of the while loop of ColouriseDartDoc.
DartLoopBody(s) ==
    LET s1 == DartTerminate([s EXCEPT !.cont = FALSE]) IN
    IF s1.cont THEN s1
    ELSE LET s2 == DartEnter(s1) IN
         IF s2.cont THEN s2 ELSE DartLineEnd(s2)

\* The locals, the StyleContext and the state read back from the previous line: lines 292-331.
DartBegin(startPos, length, initStyle, styles, ls) ==
    LET sc == Merge(StyleContext(startPos, length, initStyle, styles, ls),
                    [lineStateLineType |-> 0, commentLevel |-> 0, kwType |-> "None",
                     chBeforeIdentifier |-> NUL, nestedState |-> <<>>, visibleChars |-> 0,
                     chBefore |-> NUL, visibleCharsBefore |-> 0, chPrevNonWhite |-> NUL,
                     escSeq |-> [outerState |-> "DEFAULT", digitsLeft |-> 0, brace |-> FALSE]])
        lineState == GetLineState(sc, CurrentLine(sc) - 1)
        s1 == IF CurrentLine(sc) > 0
              THEN [sc EXCEPT !.commentLevel = BitMask(ShiftRight(lineState, 2), 6),
                              !.nestedState = IF ShiftRight(lineState, 8) # 0
                                              THEN UnpackLineState(ShiftRight(lineState, 8)) ELSE <<>>]
              ELSE sc
    IN IF startPos = 0 THEN
           IF Match2(s1, "#", "!")
           THEN [Forward(SetState(s1, "COMMENTLINE")) EXCEPT !.lineStateLineType = 1]
           ELSE s1
       ELSE IF DartIsSpaceEquiv(initStyle)
       THEN [s1 EXCEPT !.chPrevNonWhite = LookbackNonWhite(styles, startPos, DartSpaceStyles)]
       ELSE s1

DartLines == {<<>>, <<"<","a">>, <<".","b",">">>,
              <<"/","*"," ","a"," ","/","*"," ","b"," ","*","/"," ","c"," ","*","/">>,
              <<"/","*"," ","a">>, <<"b"," ","*","/"," ","c">>, <<"/","/"," ","c">>,
              <<"l","e","t"," ","x"," ","="," ","1",";">>,
              <<"\"","s","u","m","=","$","{","a","+","b","}","\"">>,
              <<"'","'","'","s">>, <<"t","'","'","'">>,
              <<"c","l","a","s","s"," ","A"," ","{">>, <<"}">>, <<"{">>, <<"f","(",")">>,
              <<"\"","a","b","c">>, <<"d","e","f","\"">>, <<"f","(","$","{">>}

InitDart ==
    /\ lang = "dart"
    /\ doc \in DocsOf(DartLines)
    /\ phase = "full" /\ pc = "start" /\ split = 0
    /\ lx = IdlePass
    /\ full = IdlePass
    /\ EditorIdle

ColouriseDartDocBegin ==
    /\ lang = "dart" /\ pc = "start" /\ Lexing
    /\ lx' = DartBegin(PassStart, PassLength, PassInitStyle, PassStyles, PassLineStates)
    /\ pc' = "loop"
    /\ UNCHANGED <<lang, doc, phase, split, full, editor>>

ColouriseDartDocStep ==
    /\ lang = "dart" /\ pc = "loop" /\ Lexing /\ More(lx)
    /\ lx' = DartLoopBody(lx)
    /\ UNCHANGED <<lang, doc, phase, pc, split, full, editor>>

\* The pass returns without sc.Complete().
ColouriseDartDocReturn ==
    /\ lang = "dart" /\ pc = "loop" /\ Lexing /\ ~More(lx)
    /\ pc' = "done"
    /\ UNCHANGED <<lang, doc, phase, split, full, lx, editor>>

ColouriseDartDocComplete ==
    /\ lang = "dart" /\ pc = "loop" /\ Lexing /\ ~More(lx)
    /\ lx' = Complete(lx)
    /\ pc' = "done"
    /\ UNCHANGED <<lang, doc, phase, split, full, editor>>

\* ============================================================ CMake
UpperSeq == <<"A", "B", "C", "D", "E", "F", "G", "H", "I", "J", "K", "L", "M",
              "N", "O", "P", "Q", "R", "S", "T", "U", "V", "W", "X", "Y", "Z">>
LowerSeq == <<"a", "b", "c", "d", "e", "f", "g", "h", "i", "j", "k", "l", "m",
              "n", "o", "p", "q", "r", "s", "t", "u", "v", "w", "x", "y", "z">>
MakeLowerCase(ch) ==
    IF ch \in UpperCase THEN LowerSeq[CHOOSE i \in 1..26 : UpperSeq[i] = ch] ELSE ch
Lowered(w) == [i \in 1..Len(w) |-> MakeLowerCase(w[i])]

\* keywordLists[0] (keywords) and [1] (commands), matched up to '('; [2]..[5] case sensitive.
CMakeKeywords == {<<"i","f">>, <<"e","n","d","i","f">>, <<"f","u","n","c","t","i","o","n">>,
                  <<"e","n","d","f","u","n","c","t","i","o","n">>, <<"m","a","c","r","o">>}
CMakeCommands == {<<"s","e","t">>}
CMakeParameters == {<<"P","U","B","L","I","C">>}
CMakeProperties == {<<"S","O","U","R","C","E","S">>}
CMakeVariables == {<<"W","I","N","3","2">>}
CMakeValues == {<<"O","N">>}

\* The styles in the order of their numbers; outerStyle is stored in the line state by number.
CMakeStyles == <<"DEFAULT", "COMMENT", "BLOCK_COMMENT", "STRING", "ESCAPE_SEQUENCE", "BRACKET_ARGUMENT",
                 "OPERATOR", "NUMBER", "VARIABLE", "VARIABLE_DOLLAR", "VARIABLE_AT", "IDENTIFIER",
                 "WORD", "COMMANDS", "FUNCATION", "MACRO", "PARAMETERS", "PROPERTIES", "VALUES",
                 "LINE_CONTINUE">>
CMakeStyleNumber(style) == (CHOOSE i \in 1..Len(CMakeStyles) : CMakeStyles[i] = style) - 1
CMakeStyleOf(n) == IF n + 1 \in 1..Len(CMakeStyles) THEN CMakeStyles[n + 1] ELSE "DEFAULT"

IsCMakeOperator(ch) == ch \in {"(", ")", "=", ":", ";", "$", "<", ">", ","}
IsCMakeChar(ch) == IsIdentifierChar(ch) \/ ch \in {".", "-", "+"}

\* The number of '=' from position p on.
RECURSIVE CountEquals(_)
CountEquals(p) == IF CharAt(p) = "=" THEN 1 + CountEquals(p + 1) ELSE 0

\* IsBracketArgument: lines 36-56; ok and the bracketNumber afterwards.
IsBracketArgument(p, start, bracketNumber) ==
    LET offset == CountEquals(p + 1)
        ch == CharAt(p + 1 + offset)
    IN IF start
       THEN (IF ch = "[" THEN [ok |-> TRUE, n |-> offset] ELSE [ok |-> FALSE, n |-> bracketNumber])
       ELSE [ok |-> ch = "]" /\ offset = bracketNumber, n |-> bracketNumber]

\* The end of an identifier: lines 101-139.
CMakeIdentifierEnd(s) ==
    LET chNext == GetDocNextChar(s)
        low == Lowered(GetCurrent(s, 128))
        w == GetCurrent(s, 128)
        s1 == IF chNext = "(" THEN
                  IF low \in CMakeKeywords THEN
                      [ChangeState(s, "WORD") EXCEPT !.userDefType =
                          IF low = <<"f","u","n","c","t","i","o","n">> THEN "FUNCATION"
                          ELSE IF low = <<"m","a","c","r","o">> THEN "MACRO"
                          ELSE "DEFAULT"]
                  ELSE IF low \in CMakeCommands THEN [ChangeState(s, "COMMANDS") EXCEPT !.userDefType = "DEFAULT"]
                  ELSE [ChangeState(s, "FUNCATION") EXCEPT !.userDefType = "DEFAULT"]
              ELSE IF s.userDefType # "DEFAULT"
              THEN [ChangeState(s, s.userDefType) EXCEPT !.userDefType = "DEFAULT"]
              ELSE IF IsUpperCase(s.chIdentifierStart) THEN
                  IF w \in CMakeParameters THEN ChangeState(s, "PARAMETERS")
                  ELSE IF w \in CMakeProperties THEN ChangeState(s, "PROPERTIES")
                  ELSE IF w \in CMakeVariables THEN ChangeState(s, "VARIABLE")
                  ELSE IF w \in CMakeValues THEN ChangeState(s, "VALUES")
                  ELSE s
              ELSE s
    IN SetState(s1, "DEFAULT")

\* The end of a bracket argument or bracket comment: lines 149-155 and 205-211.
CMakeBracketEnd(s) ==
    IF Ch(s) = "]" /\ ChNext(s) \in {"=", "]"} /\ IsBracketArgument(s.pos, FALSE, s.bracketNumber).ok
    THEN [ForwardSetState(Advance(s, 1 + s.bracketNumber), "DEFAULT") EXCEPT !.bracketNumber = 0]
    ELSE s

\* Inside a quoted string: lines 159-185.
CMakeString(s) ==
    IF Ch(s) = "\\" THEN
        IF IsEOLChar(ChNext(s))
        THEN ForwardSetState(SetState(s, "LINE_CONTINUE"), "STRING")
        ELSE Forward(SetState(s, "ESCAPE_SEQUENCE"))
    ELSE IF Match2(s, "$", "{") THEN SetState([s EXCEPT !.varNestedLevel = 1], "VARIABLE")
    ELSE IF Match2(s, "$", "<") THEN SetState([s EXCEPT !.generatorExpr = 1], "OPERATOR")
    ELSE IF Ch(s) \in {"$", "@"} /\ IsIdentifierStart(ChNext(s))
    THEN SetState(s, IF Ch(s) = "$" THEN "VARIABLE_DOLLAR" ELSE "VARIABLE_AT")
    ELSE IF s.generatorExpr # 0 /\ IsCMakeOperator(Ch(s)) THEN
        Continue(ForwardSetState(SetState(IF Ch(s) = ">" THEN [s EXCEPT !.generatorExpr = @ - 1] ELSE s,
                                          "OPERATOR"), "STRING"))
    ELSE IF Ch(s) = "\"" THEN [ForwardSetState(s, "DEFAULT") EXCEPT !.outerStyle = "DEFAULT"]
    ELSE s

\* `sc.SetState(outerStyle); continue;` without leaving the state.
CMakeToOuterStay(s) == Continue(s)

\* `sc.SetState(outerStyle); if (outerStyle != SCE_CMAKE_DEFAULT) continue;`
CMakeToOuter(s) ==
    LET s1 == SetState(s, s.outerStyle) IN
    IF s.outerStyle # "DEFAULT" THEN Continue(s1) ELSE s1

\* The switch on the current state: lines 86-253.
CMakeTerminate(s) ==
    CASE s.state = "OPERATOR" -> SetState(s, "DEFAULT")
      [] s.state = "NUMBER" ->
            IF ~IsNumberStart(Ch(s), ChNext(s)) THEN
                SetState(IF IsCMakeChar(Ch(s)) \/ IsCMakeChar(s.chBeforeNumber)
                         THEN ChangeState(s, "DEFAULT") ELSE s, "DEFAULT")
            ELSE s
      [] s.state = "IDENTIFIER" ->
            IF ~(IsIdentifierChar(Ch(s)) \/ Ch(s) = "-") THEN CMakeIdentifierEnd(s) ELSE s
      [] s.state = "COMMENT" -> IF AtLineStart(s) THEN SetState(s, "DEFAULT") ELSE s
      [] s.state \in {"BLOCK_COMMENT", "BRACKET_ARGUMENT"} -> CMakeBracketEnd(s)
      [] s.state = "STRING" -> CMakeString(s)
      [] s.state = "ESCAPE_SEQUENCE" ->
            IF Ch(s) = "\\" THEN
                IF IsEOLChar(ChNext(s))
                THEN ForwardSetState(SetState(s, "LINE_CONTINUE"), s.outerStyle)
                ELSE Forward(s)
            ELSE CMakeToOuter(s)
      [] s.state = "VARIABLE" ->
            IF Ch(s) = "}" THEN
                LET s1 == [s EXCEPT !.varNestedLevel = @ - 1] IN
                IF s1.varNestedLevel = 0 THEN
                    LET s2 == ForwardSetState(s1, s1.outerStyle) IN
                    IF s1.outerStyle # "DEFAULT" THEN Continue(s2) ELSE s2
                ELSE s1
            ELSE IF Match2(s, "$", "{") THEN [s EXCEPT !.varNestedLevel = @ + 1]
            ELSE s
      [] s.state \in {"VARIABLE_DOLLAR", "VARIABLE_AT"} ->
            IF ~IsIdentifierChar(Ch(s)) THEN
                IF s.state = "VARIABLE_AT" THEN CMakeToOuter(IF Ch(s) = "@" THEN Forward(s) ELSE s)
                ELSE IF Ch(s) = "{" /\ GetCurrent(s, 8) \in {<<"$","E","N","V">>, <<"$","C","A","C","H","E">>}
                THEN [SetState(s, "VARIABLE") EXCEPT !.varNestedLevel = 1]
                ELSE CMakeToOuter(s)
            ELSE s
      [] OTHER -> s

\* A line comment from here on: lines 261-264 and 272-275.
CMakeLineComment(s) ==
    LET s1 == SetState(s, "COMMENT") IN
    IF s1.visibleChars = 0 THEN [s1 EXCEPT !.lineStateLineComment = 1] ELSE s1

\* A new token in the DEFAULT state: lines 255-308.
CMakeEnter(s) ==
    IF s.state # "DEFAULT" THEN s
    ELSE IF Ch(s) = "#" THEN
        LET r == IsBracketArgument(s.pos + 1, TRUE, s.bracketNumber) IN
        IF ChNext(s) = "[" /\ r.ok
        THEN Advance(SetState([s EXCEPT !.bracketNumber = r.n], "BLOCK_COMMENT"), 2 + r.n)
        ELSE CMakeLineComment(s)
    ELSE IF Ch(s) = "[" /\ ChNext(s) \in {"=", "["} THEN
        LET r == IsBracketArgument(s.pos, TRUE, s.bracketNumber) IN
        IF r.ok THEN Advance(SetState([s EXCEPT !.bracketNumber = r.n], "BRACKET_ARGUMENT"), 2 + r.n) ELSE s
    ELSE IF Match2(s, "/", "/") THEN CMakeLineComment(s)
    ELSE IF Ch(s) = "\"" THEN SetState([s EXCEPT !.outerStyle = "STRING"], "STRING")
    ELSE IF Match2(s, "$", "{") THEN
        SetState([s EXCEPT !.varNestedLevel = 1,
                           !.outerStyle = IF s.generatorExpr # 0 THEN @ ELSE "DEFAULT"], "VARIABLE")
    ELSE IF Ch(s) \in {"$", "@"} /\ IsIdentifierStart(ChNext(s)) THEN
        Forward(SetState([s EXCEPT !.outerStyle = IF s.generatorExpr # 0 THEN @ ELSE "DEFAULT"],
                         IF Ch(s) = "$" THEN "VARIABLE_DOLLAR" ELSE "VARIABLE_AT"))
    ELSE IF Ch(s) = "\\" THEN Forward(SetState(s, "ESCAPE_SEQUENCE"))
    ELSE IF IsIdentifierStart(Ch(s)) THEN SetState([s EXCEPT !.chIdentifierStart = Ch(s)], "IDENTIFIER")
    ELSE IF IsADigit(Ch(s)) \/ (Ch(s) = "-" /\ IsADigit(ChNext(s)))
    THEN [SetState(s, "NUMBER") EXCEPT !.chBeforeNumber = ChPrev(s)]
    ELSE IF IsCMakeOperator(Ch(s)) THEN
        LET s1 == SetState(s, "OPERATOR") IN
        IF s1.generatorExpr # 0 THEN
            IF Match2(s1, "$", "<") THEN [s1 EXCEPT !.generatorExpr = @ + 1]
            ELSE IF Ch(s1) = ">" THEN
                LET s2 == [s1 EXCEPT !.generatorExpr = @ - 1] IN
                Continue(ForwardSetState(s2, IF s2.generatorExpr # 0 THEN "DEFAULT" ELSE s2.outerStyle))
            ELSE s1
        ELSE s1
    ELSE s

\* The line state word: line 314.
CMakeLineState(s) ==
    BitOr(BitOr(ShiftLeft(s.bracketNumber, 8), ShiftLeft(CMakeStyleNumber(s.outerStyle), 1)),
          s.lineStateLineComment)

\* The end of the loop body without the reset of the line's flag.
CMakeLineEndKeep(s) ==
    LET s1 == IF s.visibleChars = 0 /\ ~isspacechar(Ch(s)) THEN [s EXCEPT !.visibleChars = @ + 1] ELSE s
        s2 == IF AtLineEnd(s1)
              THEN [SetLineState(s1, CurrentLine(s1), CMakeLineState(s1)) EXCEPT !.visibleChars = 0]
              ELSE s1
    IN Forward(s2)

\* The end of the loop body: lines 310-318.
CMakeLineEnd(s) ==
    LET s1 == IF s.visibleChars = 0 /\ ~isspacechar(Ch(s)) THEN [s EXCEPT !.visibleChars = @ + 1] ELSE s
        s2 == IF AtLineEnd(s1)
              THEN [SetLineState(s1, CurrentLine(s1), CMakeLineState(s1))
                        EXCEPT !.lineStateLineComment = 0, !.visibleChars = 0]
              ELSE s1
    IN Forward(s2)

\* One iteration of the while loop of ColouriseCMakeDoc.
CMakeLoopBody(s) ==
    LET s1 == CMakeTerminate([s EXCEPT !.cont = FALSE]) IN
    IF s1.cont THEN s1
    ELSE LET s2 == CMakeEnter(s1) IN
         IF s2.cont THEN s2 ELSE CMakeLineEnd(s2)

\* The locals, the StyleContext and the state read back from the previous line: lines 58-83.
CMakeBegin(startPos, length, initStyle, styles, ls) ==
    LET sc == Merge(StyleContext(startPos, length, initStyle, styles, ls),
                    [lineStateLineComment |-> 0, outerStyle |-> "DEFAULT", varNestedLevel |-> 0,
                     generatorExpr |-> 0, bracketNumber |-> 0, userDefType |-> "DEFAULT",
                     chBeforeNumber |-> NUL, chIdentifierStart |-> NUL, visibleChars |-> 0])
        lineState == GetLineState(sc, CurrentLine(sc) - 1)
        outerStyle == CMakeStyleOf(BitMask(ShiftRight(lineState, 1), 7))
    IN IF CurrentLine(sc) > 0 THEN
           LET s1 == [sc EXCEPT !.outerStyle = outerStyle,
                                !.bracketNumber = BitMask(ShiftRight(lineState, 8), 8)] IN
           IF outerStyle # "DEFAULT" THEN SetState(s1, outerStyle) ELSE s1
       ELSE sc

CMakeLines == {<<>>, <<"$","{","a">>, <<"}","b">>, <<"\"","$","{","a">>, <<"}","b","\"">>,
               <<"\"","$","<","a",":">>, <<">","c","\"">>, <<"#","[","=","[","c">>, <<"]","=","]","d">>,
               <<"[","[","e">>, <<"]","]">>, <<"#"," ","c">>, <<"i","f","(","x",")">>,
               <<"e","n","d","i","f","(",")">>, <<"s","e","t","(","V"," ","1",")">>, <<"\"","s">>,
               <<"t","\""," ","u">>}

InitCMake ==
    /\ lang = "cmake"
    /\ doc \in DocsOf(CMakeLines)
    /\ phase = "full" /\ pc = "start" /\ split = 0
    /\ lx = IdlePass
    /\ full = IdlePass
    /\ EditorIdle

ColouriseCMakeDocBegin ==
    /\ lang = "cmake" /\ pc = "start" /\ Lexing
    /\ lx' = CMakeBegin(PassStart, PassLength, PassInitStyle, PassStyles, PassLineStates)
    /\ pc' = "loop"
    /\ UNCHANGED <<lang, doc, phase, split, full, editor>>

ColouriseCMakeDocStep ==
    /\ lang = "cmake" /\ pc = "loop" /\ Lexing /\ More(lx)
    /\ lx' = CMakeLoopBody(lx)
    /\ UNCHANGED <<lang, doc, phase, pc, split, full, editor>>

ColouriseCMakeDocComplete ==
    /\ lang = "cmake" /\ pc = "loop" /\ Lexing /\ ~More(lx)
    /\ lx' = Complete(lx)
    /\ pc' = "done"
    /\ UNCHANGED <<lang, doc, phase, split, full, editor>>

\* ============================================================ F#
BackTick == "BQ"

IsASpaceOrTab(ch) == ch \in {" ", "\t"}
IsDecimalOrHex(ch, hex) == IsADigit(ch) \/ (hex /\ IsHexDigit(ch))
IsNumberStartEx(chPrev, ch, chNext) == IsADigit(ch) \/ (chPrev # "." /\ ch = "." /\ IsADigit(chNext))
IsInvalidUrlChar(ch) == ch \in {NUL, " ", "\t", LF, "\r", "\"", "<", ">", "\\", "^", BackTick, "{", "|", "}"}
GetTabIndentCount(indentCount) == ((indentCount \div 8) + 1) * 8

\* The number of `delimiter` from position p on, the one at p counted unseen.
RECURSIVE GetMatchedDelimiterCount(_, _)
GetMatchedDelimiterCount(p, delimiter) ==
    IF CharAt(p + 1) = delimiter THEN 1 + GetMatchedDelimiterCount(p + 1, delimiter) ELSE 1

\* The bits of a line state word shared by the indentation-folded languages.
PyLineStateMaskEmptyLine == Pow2(0)
PyLineStateMaskCommentLine == Pow2(1)
PyLineStateMaskTripleQuote == Pow2(2)
PyLineStateMaskCloseBrace == Pow2(3)
PyLineStateStringInterpolation == Pow2(5)

FSharpMaxKeywordSize == 16
FSharpKeywords == {<<"l","e","t">>, <<"e","n","d">>, <<"d","o","n","e">>, <<"i","f">>}
FSharpTypes == {<<"i","n","t">>}

\* The styles in the order of their numbers: the string styles are compared by number.
FSharpStyles == <<"DEFAULT", "COMMENT", "COMMENTLINE", "COMMENTLINEDOC", "TASKMARKER", "OPERATOR",
                  "OPERATOR2", "NUMBER", "IDENTIFIER", "KEYWORD", "TYPE", "ATTRIBUTE", "PREPROCESSOR",
                  "BACKTICK", "CHARACTER", "STRING", "INTERPOLATED_STRING", "VERBATIM_STRING",
                  "INTERPOLATED_VERBATIM_STRING", "TRIPLE_STRING", "INTERPOLATED_TRIPLE_STRING",
                  "QUOTATION", "ESCAPECHAR", "FORMAT_SPECIFIER">>
FSharpStyleNumber(style) == CHOOSE i \in 1..Len(FSharpStyles) : FSharpStyles[i] = style
FSharpStringStates == {"CHARACTER", "STRING", "INTERPOLATED_STRING", "VERBATIM_STRING",
                       "INTERPOLATED_VERBATIM_STRING", "TRIPLE_STRING", "INTERPOLATED_TRIPLE_STRING"}

IsFSharpIdentifierChar(ch) == IsIdentifierChar(ch) \/ ch = "'"
IsPercentFormatSpecifier(ch) ==
    ch \in {"a", "A", "b", "B", "c", "d", "e", "E", "f", "F", "g", "G", "i", "M", "o", "O", "P", "s",
            "t", "u", "x", "X"}
IsPlainString(state) == FSharpStyleNumber(state) < FSharpStyleNumber("TRIPLE_STRING")
IsVerbatimString(state) == state \in {"VERBATIM_STRING", "INTERPOLATED_VERBATIM_STRING"}
IsInterpolatedString(state) ==
    FSharpStyleNumber(state) % 2 = FSharpStyleNumber("INTERPOLATED_STRING") % 2
IsInvalidFormatSpecifier(ch) == ch \in {NUL, "\t", LF, "\r", "\"", "{", "}"}
IsInterpolatedStringEnd(s) ==
    \/ Ch(s) \in {"}", ":"}
    \/ (Ch(s) = "," /\ (IsADigit(ChNext(s)) \/ (ChNext(s) = "-" /\ IsADigit(GetRelative(s, 2)))))
IsMultilineStyle(style) ==
    \/ (FSharpStyleNumber(style) >= FSharpStyleNumber("STRING")
        /\ FSharpStyleNumber(style) <= FSharpStyleNumber("INTERPOLATED_TRIPLE_STRING"))
    \/ style = "QUOTATION"

\* The first position from p on whose character is not in `set`.
RECURSIVE SkipChars(_, _)
SkipChars(p, set) == IF CharAt(p) \in set THEN SkipChars(p + 1, set) ELSE p

\* CheckPercentFormatSpecifier: lines 83-127; the length of the specifier at the cursor, or 0.
CheckPercentFormatSpecifier(s, insideUrl) ==
    IF ChNext(s) = "%" THEN 2
    ELSE IF insideUrl /\ IsHexDigit(ChNext(s)) THEN 0
    ELSE IF IsASpaceOrTab(ChNext(s)) /\ IsADigit(ChPrev(s)) THEN 0
    ELSE LET p1 == SkipChars(s.pos + 1, {"-", "+", " ", "0"})
             p2 == IF CharAt(p1) = "*" THEN p1 + 1 ELSE SkipChars(p1, Digits)
             p3 == IF CharAt(p2) = "."
                   THEN (IF CharAt(p2 + 1) = "*" THEN p2 + 2 ELSE SkipChars(p2 + 1, Digits))
                   ELSE p2
         IN IF IsPercentFormatSpecifier(CharAt(p3)) THEN p3 + 1 - s.pos ELSE 0

\* resetEscapeState(state, chNext): lines 35-49.
FSharpResetEscapeState(s, state, chNext) ==
    [s EXCEPT !.escSeq =
        [outerState |-> state,
         digitsLeft |-> IF chNext = "x" THEN 3 ELSE IF chNext = "u" THEN 5 ELSE IF chNext = "U" THEN 9
                        ELSE IF IsADigit(chNext) THEN 3 ELSE 1,
         hex |-> ~IsADigit(chNext)]]

\* resetEscapeState(state): lines 50-53.
FSharpResetEscapeOuter(s, state) == [s EXCEPT !.escSeq.outerState = state, !.escSeq.digitsLeft = 1]

\* A two-character escape inside a string: the quote or brace doubled.
FSharpDoubled(s) == Forward(SetState(FSharpResetEscapeOuter(s, s.state), "ESCAPECHAR"))

\* BacktrackToStart: the range is widened to the line that opened the interpolated string.
RECURSIVE BacktrackLine(_, _, _)
BacktrackLine(ls, line, stateMask) ==
    IF BitAnd(ls[line + 1], stateMask) # 0 /\ line # 0
    THEN BacktrackLine(ls, line - 1, stateMask)
    ELSE IF BitAnd(ls[line + 1], stateMask) = 0 THEN line + 1 ELSE line

BacktrackToStart(stateMask, startPos, length, initStyle, styles, ls) ==
    LET currentLine == GetLine(startPos)
        line == IF currentLine # 0 THEN BacktrackLine(ls, currentLine - 1, stateMask) ELSE currentLine
        start == IF line = 0 THEN 0 ELSE LineStart(line)
    IN IF line # currentLine
       THEN [startPos |-> start, length |-> startPos + length - start,
             initStyle |-> IF start = 0 THEN "DEFAULT" ELSE styles[start]]
       ELSE [startPos |-> startPos, length |-> length, initStyle |-> initStyle]

\* The end of an identifier read into a buffer of four characters.
FSharpIdentifierEndShort(s) ==
    LET w == GetCurrent(s, 4)
        chNext == GetLineNextChar(s, FALSE)
        s1 == IF s.state # "IDENTIFIER" THEN s
              ELSE IF w \in FSharpKeywords THEN ChangeState(s, "KEYWORD")
              ELSE IF w \in FSharpTypes THEN ChangeState(s, "TYPE")
              ELSE IF s.insideAttribute /\ chNext \in {":", "(", ">"} THEN ChangeState(s, "ATTRIBUTE")
              ELSE s
    IN SetState(s1, "DEFAULT")

\* The end of an identifier or a preprocessor word: lines 222-241.
FSharpIdentifierEnd(s) ==
    LET w == GetCurrent(s, FSharpMaxKeywordSize)
        chNext == GetLineNextChar(s, FALSE)
        s1 == IF s.state # "IDENTIFIER" THEN s
              ELSE IF w \in FSharpKeywords THEN
                  [ChangeState(s, "KEYWORD") EXCEPT !.lineState =
                      IF (s.visibleChars = 3 /\ w = <<"e","n","d">>) \/ (s.visibleChars = 4 /\ w = <<"d","o","n","e">>)
                      THEN BitOr(@, PyLineStateMaskCloseBrace) ELSE @]
              ELSE IF w \in FSharpTypes THEN ChangeState(s, "TYPE")
              ELSE IF s.insideAttribute /\ chNext \in {":", "(", ">"} THEN ChangeState(s, "ATTRIBUTE")
              ELSE s
    IN SetState(s1, "DEFAULT")

\* Inside a block comment: lines 245-260.
FSharpComment(s) ==
    LET s0 == IF AtLineStart(s) THEN [s EXCEPT !.lineState = PyLineStateMaskCommentLine] ELSE s IN
    IF Match2(s0, "(", "*") THEN Forward([s0 EXCEPT !.commentLevel = @ + 1])
    ELSE IF Match2(s0, "*", ")") THEN
        LET s1 == [Forward(s0) EXCEPT !.commentLevel = @ - 1] IN
        IF s1.commentLevel = 0 THEN
            LET s2 == ForwardSetState(s1, "DEFAULT") IN
            IF s2.lineState = PyLineStateMaskCommentLine /\ GetLineNextChar(s2, FALSE) # NUL
            THEN [s2 EXCEPT !.lineState = 0] ELSE s2
        ELSE s1
    ELSE s0

\* '%' inside a string with the result of the lookahead not looked at.
FSharpPercentUnchecked(s) ==
    LET state == s.state
        interpolatorCount == GetMatchedDelimiterCount(s.pos, "%")
        multi == state = "INTERPOLATED_TRIPLE_STRING" /\ s.stringInterpolatorCount > 1
        s1 == IF multi /\ interpolatorCount = s.stringInterpolatorCount
              THEN Forward(Advance(SetState([s EXCEPT !.insideUrl = FALSE], "FORMAT_SPECIFIER"),
                                   interpolatorCount - 2))
              ELSE s
        length == CheckPercentFormatSpecifier(s1, s1.insideUrl)
    IN IF multi /\ interpolatorCount # s.stringInterpolatorCount
       THEN Continue(Advance(s, interpolatorCount))
       ELSE Continue(SetState(Advance(SetState(s1, "FORMAT_SPECIFIER"), Max(length, 1)), state))

\* '%' inside a string: lines 319-342.
FSharpPercent(s) ==
    LET state == s.state
        interpolatorCount == GetMatchedDelimiterCount(s.pos, "%")
        multi == state = "INTERPOLATED_TRIPLE_STRING" /\ s.stringInterpolatorCount > 1
        s1 == IF multi /\ interpolatorCount = s.stringInterpolatorCount
              THEN Forward(Advance(SetState([s EXCEPT !.insideUrl = FALSE], "FORMAT_SPECIFIER"),
                                   interpolatorCount - 2))
              ELSE s
        length == CheckPercentFormatSpecifier(s1, s1.insideUrl)
    IN IF multi /\ interpolatorCount # s.stringInterpolatorCount
       THEN Continue(Advance(s, interpolatorCount))
       ELSE IF length # 0 \/ s1.state = "FORMAT_SPECIFIER"
       THEN Continue(SetState(Advance(SetState(s1, "FORMAT_SPECIFIER"), length), state))
       ELSE s1

\* '{' and '}' inside an interpolated string: lines 343-380.
FSharpInterpolation(s) ==
    IF ~IsInterpolatedString(s.state) THEN s
    ELSE IF Ch(s) = "{" THEN
        IF ChNext(s) = "{" /\ IsPlainString(s.state) THEN FSharpDoubled(s)
        ELSE LET interpolatorCount == GetMatchedDelimiterCount(s.pos, "{") IN
             IF IsPlainString(s.state) \/ interpolatorCount >= s.stringInterpolatorCount THEN
                 LET s1 == [s EXCEPT !.nestedState = Append(@, [state |-> s.state, parenCount |-> 0,
                                                       interpolatorCount |-> s.stringInterpolatorCount])]
                     s2 == SetState(Advance(s1, interpolatorCount - s.stringInterpolatorCount), "OPERATOR2")
                     s3 == ForwardSetState(Advance(s2, s.stringInterpolatorCount - 1), "DEFAULT")
                 IN [s3 EXCEPT !.stringInterpolatorCount = 0]
             ELSE s
    ELSE IF Ch(s) = "}" THEN
        LET interpolatorCount == IF IsPlainString(s.state) THEN 1 ELSE GetMatchedDelimiterCount(s.pos, "}")
            interpolating == Len(s.nestedState) > 0 /\ interpolatorCount >= s.stringInterpolatorCount
            s1 == IF interpolating THEN [s EXCEPT !.nestedState = SubSeq(@, 1, Len(@) - 1)] ELSE s
        IN IF interpolating \/ (ChNext(s) # "}" /\ IsPlainString(s.state)) THEN
               LET s2 == ForwardSetState(Advance(SetState(s1, "OPERATOR2"), s.stringInterpolatorCount - 1),
                                         s.state)
               IN Continue(Advance(s2, interpolatorCount - s.stringInterpolatorCount))
           ELSE IF ChNext(s) = "}" /\ IsPlainString(s.state) THEN FSharpDoubled(s1)
           ELSE s1
    ELSE s

\* The text of a string: lines 314-381.
FSharpStringContent(s) ==
    LET s1 == IF Match3(s, ":", "/", "/") /\ IsLowerCase(ChPrev(s)) THEN [s EXCEPT !.insideUrl = TRUE]
              ELSE IF s.insideUrl /\ IsInvalidUrlChar(Ch(s)) THEN [s EXCEPT !.insideUrl = FALSE]
              ELSE IF Ch(s) = "%" THEN FSharpPercent(s)
              ELSE s
    IN IF s1.cont THEN s1 ELSE FSharpInterpolation(s1)

\* Inside a character or string literal: lines 284-382.
FSharpString(s) ==
    IF s.state = "CHARACTER" /\ AtLineStart(s) THEN SetState(s, "DEFAULT")
    ELSE IF Ch(s) = "\\" THEN
        IF FSharpStyleNumber(s.state) < FSharpStyleNumber("VERBATIM_STRING") /\ ~IsEOLChar(ChNext(s))
        THEN Forward(SetState(FSharpResetEscapeState(s, s.state, ChNext(s)), "ESCAPECHAR"))
        ELSE s
    ELSE IF Ch(s) = (IF s.state = "CHARACTER" THEN "'" ELSE "\"") THEN
        IF ChNext(s) = "\"" /\ IsVerbatimString(s.state) THEN FSharpDoubled(s)
        ELSE IF IsPlainString(s.state) \/ MatchNext2(s, "\"", "\"") THEN
            LET s1 == IF ~IsPlainString(s.state) THEN Advance(s, 2) ELSE s
                s2 == IF ChNext(s1) = "B" THEN Forward(s1) ELSE s1
            IN ForwardSetState([s2 EXCEPT !.stringInterpolatorCount = 0], "DEFAULT")
        ELSE s
    ELSE IF s.state # "CHARACTER" THEN FSharpStringContent(s)
    ELSE s

\* The switch on the current state: lines 208-397.
FSharpTerminate(s) ==
    CASE s.state \in {"OPERATOR", "OPERATOR2"} -> SetState(s, "DEFAULT")
      [] s.state = "NUMBER" ->
            IF ~IsDecimalNumber(ChPrev(s), Ch(s), ChNext(s)) THEN SetState(s, "DEFAULT") ELSE s
      [] s.state \in {"IDENTIFIER", "PREPROCESSOR"} ->
            IF ~IsFSharpIdentifierChar(Ch(s)) THEN FSharpIdentifierEnd(s) ELSE s
      [] s.state = "COMMENT" -> FSharpComment(s)
      [] s.state \in {"COMMENTLINE", "COMMENTLINEDOC"} ->
            IF AtLineStart(s) THEN SetState(s, "DEFAULT") ELSE s
      [] s.state = "BACKTICK" ->
            IF Match2(s, BackTick, BackTick) THEN ForwardSetState(Forward(s), "DEFAULT") ELSE s
      [] s.state = "QUOTATION" ->
            IF Match2(s, "@", ">") THEN ForwardSetState(Forward(s), "DEFAULT") ELSE s
      [] s.state \in FSharpStringStates -> FSharpString(s)
      [] s.state = "ESCAPECHAR" ->
            LET s1 == [s EXCEPT !.escSeq.digitsLeft = @ - 1] IN
            IF s1.escSeq.digitsLeft <= 0 \/ ~IsDecimalOrHex(Ch(s1), s1.escSeq.hex)
            THEN Continue(SetState(s1, s1.escSeq.outerState)) ELSE s1
      [] s.state = "FORMAT_SPECIFIER" ->
            IF IsInvalidFormatSpecifier(Ch(s)) THEN Continue(SetState(s, s.escSeq.outerState)) ELSE s
      [] OTHER -> s

\* '$' or '@' in the DEFAULT state: lines 429-455.
FSharpStringPrefix(s) ==
    LET s0 == SetState([s EXCEPT !.insideUrl = FALSE], "OPERATOR") IN
    IF Ch(s0) # ChNext(s0) /\ ChNext(s0) \in {"$", "@"} THEN
        LET s1 == Forward(s0) IN
        IF ChNext(s1) = "\""
        THEN Forward(ChangeState([s1 EXCEPT !.stringInterpolatorCount = 1], "INTERPOLATED_VERBATIM_STRING"))
        ELSE s1
    ELSE IF ChNext(s0) = "\"" THEN
        LET n == IF Ch(s0) = "$" THEN 1 ELSE 0
            s1 == Forward(ChangeState([s0 EXCEPT !.stringInterpolatorCount = n],
                                      IF Ch(s0) = "$" THEN "INTERPOLATED_STRING" ELSE "VERBATIM_STRING"))
        IN IF n # 0 /\ MatchNext2(s1, "\"", "\"")
           THEN Advance(ChangeState(s1, "INTERPOLATED_TRIPLE_STRING"), 2) ELSE s1
    ELSE IF ChNext(s0) = "$" THEN
        LET interpolatorCount == GetMatchedDelimiterCount(s0.pos + 1, "$") + 1
            s1 == Advance(s0, interpolatorCount)
        IN IF Match3(s1, "\"", "\"", "\"")
           THEN Advance(ChangeState([s1 EXCEPT !.stringInterpolatorCount = interpolatorCount],
                                    "INTERPOLATED_TRIPLE_STRING"), 2)
           ELSE s1
    ELSE s0

\* An operator in the DEFAULT state: lines 479-503.
FSharpOperator(s) ==
    LET s0 == SetState(s, "OPERATOR")
        s1 == IF s0.visibleChars = 0 /\ Ch(s0) \in {"}", "]", ")"}
              THEN [s0 EXCEPT !.lineState = BitOr(@, PyLineStateMaskCloseBrace)]
              ELSE IF Match2(s0, "[", "<") THEN [s0 EXCEPT !.insideAttribute = TRUE]
              ELSE IF Match2(s0, ">", "]") THEN [s0 EXCEPT !.insideAttribute = FALSE]
              ELSE s0
    IN IF Len(s1.nestedState) = 0 THEN s1
       ELSE LET n == Len(s1.nestedState)
                d == IF Ch(s1) \in {"[", "("} THEN 1 ELSE IF Ch(s1) \in {"]", ")"} THEN -1 ELSE 0
                s2 == [ChangeState(s1, "OPERATOR2") EXCEPT !.nestedState[n].parenCount = @ + d]
                top == s2.nestedState[n]
            IN IF top.parenCount <= 0 /\ IsInterpolatedStringEnd(s2)
               THEN Continue(ChangeState([s2 EXCEPT !.escSeq.outerState = top.state,
                                                    !.stringInterpolatorCount = top.interpolatorCount],
                                         IF Ch(s2) = "}" THEN top.state ELSE "FORMAT_SPECIFIER"))
               ELSE s2

\* A new token in the DEFAULT state: lines 399-504.
FSharpEnter(s) ==
    IF s.state # "DEFAULT" THEN s
    ELSE IF Match2(s, "(", "*") THEN
        LET s1 == Forward(SetState(s, "COMMENT")) IN
        IF ChNext(s1) = ")" THEN ChangeState(s1, "OPERATOR")
        ELSE [s1 EXCEPT !.commentLevel = 1,
                        !.lineState = IF s1.visibleChars = 0 THEN PyLineStateMaskCommentLine ELSE @]
    ELSE IF Match2(s, "/", "/") THEN
        LET s1 == Forward(SetState([s EXCEPT !.lineState = IF s.visibleChars = 0
                                                            THEN PyLineStateMaskCommentLine ELSE @],
                                   "COMMENTLINE"))
        IN IF ChNext(s1) = "/" THEN ChangeState(s1, "COMMENTLINEDOC") ELSE s1
    ELSE IF Ch(s) = "\"" THEN
        LET s1 == SetState([s EXCEPT !.insideUrl = FALSE], "STRING") IN
        IF MatchNext2(s1, "\"", "\"") THEN Advance(ChangeState(s1, "TRIPLE_STRING"), 2) ELSE s1
    ELSE IF Ch(s) \in {"$", "@"} THEN FSharpStringPrefix(s)
    ELSE IF Ch(s) = "'" THEN
        SetState(s, IF IsEOLChar(ChNext(s)) THEN "OPERATOR"
                    ELSE IF ChNext(s) # "\\" /\ GetCharAfterNext(s) # "'"
                    THEN (IF IsIdentifierStart(ChNext(s)) THEN "IDENTIFIER" ELSE "OPERATOR")
                    ELSE "CHARACTER")
    ELSE IF Match2(s, BackTick, BackTick) THEN Forward(SetState(s, "BACKTICK"))
    ELSE IF Match2(s, "<", "@") THEN Forward(SetState(s, "QUOTATION"))
    ELSE IF IsNumberStartEx(ChPrev(s), Ch(s), ChNext(s)) THEN SetState(s, "NUMBER")
    ELSE IF Ch(s) = "#" /\ s.visibleChars = 0 THEN SetState(s, "PREPROCESSOR")
    ELSE IF IsIdentifierStart(Ch(s)) THEN SetState(s, "IDENTIFIER")
    ELSE IF IsAGraphic(Ch(s)) THEN FSharpOperator(s)
    ELSE s

\* The line state word packed from the counters alone, the line's flags left out.
FSharpLineStateNoFlags(s) ==
    BitOr(ShiftLeft(s.indentCount, 16),
          BitOr(ShiftLeft(s.commentLevel, 12), ShiftLeft(s.stringInterpolatorCount, 8)))

\* The line state word: lines 517-524.
FSharpLineState(s) ==
    LET flags == IF Len(s.nestedState) > 0
                 THEN BitOr(PyLineStateStringInterpolation, PyLineStateMaskTripleQuote)
                 ELSE IF IsMultilineStyle(s.state) THEN PyLineStateMaskTripleQuote
                 ELSE IF s.lineState = 0 /\ s.visibleChars = 0 THEN PyLineStateMaskEmptyLine
                 ELSE s.lineState
    IN BitOr(flags, BitOr(ShiftLeft(s.indentCount, 16),
                          BitOr(ShiftLeft(s.commentLevel, 12), ShiftLeft(s.stringInterpolatorCount, 8))))

\* The counters of the loop body's end, before the line end is looked at: lines 506-515.
FSharpCount(s) ==
    LET s1 == IF s.visibleChars = 0
              THEN (IF Ch(s) = " " THEN [s EXCEPT !.indentCount = @ + 1]
                    ELSE IF Ch(s) = "\t" THEN [s EXCEPT !.indentCount = GetTabIndentCount(@)]
                    ELSE s)
              ELSE s
    IN IF ~isspacechar(Ch(s1)) THEN [s1 EXCEPT !.visibleChars = @ + 1] ELSE s1

\* The end of the loop body: lines 516-532.
FSharpLineEnd(s) ==
    Forward(IF AtLineEnd(s)
            THEN [SetLineState(s, CurrentLine(s), FSharpLineState(s))
                      EXCEPT !.lineState = 0, !.visibleChars = 0, !.indentCount = 0,
                             !.insideUrl = FALSE, !.insideAttribute = FALSE]
            ELSE s)

\* The loop body up to the line-end test; cont is set where the code says `continue`.
FSharpBeforeLineEnd(s) ==
    LET s1 == FSharpTerminate([s EXCEPT !.cont = FALSE]) IN
    IF s1.cont THEN s1
    ELSE LET s2 == FSharpEnter(s1) IN
         IF s2.cont THEN s2 ELSE FSharpCount(s2)

\* One iteration of the while loop of ColouriseFSharpDoc.
FSharpLoopBody(s) ==
    LET s1 == FSharpBeforeLineEnd(s) IN
    IF s1.cont THEN s1 ELSE FSharpLineEnd(s1)

\* The locals, the range, the StyleContext and the state read back: lines 176-205.
FSharpBegin(startPos, length, initStyle, styles, ls) ==
    LET r == IF startPos # 0
             THEN BacktrackToStart(PyLineStateStringInterpolation, startPos, length, initStyle, styles, ls)
             ELSE [startPos |-> startPos, length |-> length, initStyle |-> initStyle]
        sc == Merge(StyleContext(r.startPos, r.length, r.initStyle, styles, ls),
                    [commentLevel |-> 0, visibleChars |-> 0, indentCount |-> 0, lineState |-> 0,
                     stringInterpolatorCount |-> 0, insideUrl |-> FALSE, insideAttribute |-> FALSE,
                     escSeq |-> [outerState |-> "DEFAULT", digitsLeft |-> 0, hex |-> FALSE],
                     nestedState |-> <<>>])
        lineState == GetLineState(sc, CurrentLine(sc) - 1)
        s1 == IF CurrentLine(sc) > 0
              THEN [sc EXCEPT !.stringInterpolatorCount = BitMask(ShiftRight(lineState, 8), 4),
                              !.commentLevel = BitMask(ShiftRight(lineState, 12), 4)]
              ELSE sc
    IN IF r.startPos = 0 /\ Match2(s1, "#", "!")
       THEN Forward(SetState([s1 EXCEPT !.lineState = PyLineStateMaskCommentLine], "COMMENTLINE"))
       ELSE s1

FSharpDeepComment == [i \in 1..32 |-> IF i % 2 = 1 THEN "(" ELSE "*"]

FSharpLines == {<<>>, <<"/","/"," ","c","o","m","m","e","n","t">>, <<"l","e","t"," ","x"," ","="," ","1",";">>,
                <<"(","*"," ","a">>, <<"b"," ","*",")"," ","c">>, FSharpDeepComment, <<"*",")">>,
                <<"(","*","(","*"," ","*",")">>,
                <<"$","\"","{","a","}","\"">>, <<"\"","%","d","\\","n","\"">>,
                <<"$","\"","\"","\"","{">>, <<"a","}","\"","\"","\"">>, <<"'","c","'">>,
                <<"[","<","A",">","]">>, <<" ","e","n","d">>, <<"@","\"","a","\"","\"","b","\"">>}

InitFSharp ==
    /\ lang = "fsharp"
    /\ doc \in DocsOf(FSharpLines)
    /\ phase = "full" /\ pc = "start" /\ split = 0
    /\ lx = IdlePass
    /\ full = IdlePass
    /\ EditorIdle

ColouriseFSharpDocBegin ==
    /\ lang = "fsharp" /\ pc = "start" /\ Lexing
    /\ lx' = FSharpBegin(PassStart, PassLength, PassInitStyle, PassStyles, PassLineStates)
    /\ pc' = "loop"
    /\ UNCHANGED <<lang, doc, phase, split, full, editor>>

ColouriseFSharpDocStep ==
    /\ lang = "fsharp" /\ pc = "loop" /\ Lexing /\ More(lx)
    /\ lx' = FSharpLoopBody(lx)
    /\ UNCHANGED <<lang, doc, phase, pc, split, full, editor>>

ColouriseFSharpDocComplete ==
    /\ lang = "fsharp" /\ pc = "loop" /\ Lexing /\ ~More(lx)
    /\ lx' = Complete(lx)
    /\ pc' = "done"
    /\ UNCHANGED <<lang, doc, phase, split, full, editor>>

\* ============================================================ PowerShell
iswordchar(ch) == IsAlphaNumeric(ch) \/ ch \in {".", "_"}
iswordstart(ch) == IsAlphaNumeric(ch) \/ ch = "_"
isoperator(ch) ==
    ch \in {"%", "^", "&", "*", "(", ")", "-", "+", "=", "|", "{", "}", "[", "]", ":", ";", "<", ">",
            ",", "/", "?", "!", ".", "~"}

IsPSWordChar(ch) == IsAlphaNumeric(ch) \/ ch \in {"-", "_"}

PSKeywords == {<<"i","f">>, <<"f","u","n","c","t","i","o","n">>}
PSCmdlets == {<<"g","e","t","-","i","t","e","m">>}
PSAliases == {<<"l","s">>}
PSFunctions == {<<"h","e","l","p">>}
PSUser1 == {<<"m","y">>}

\* The switch on the current state: lines 49-108.
PSTerminate(s) ==
    CASE s.state = "COMMENT" -> IF AtLineStart(s) THEN SetState(s, "DEFAULT") ELSE s
      [] s.state = "COMMENTSTREAM" ->
            IF Ch(s) = ">" /\ ChPrev(s) = "#" THEN ForwardSetState(s, "DEFAULT") ELSE s
      [] s.state = "STRING_DQ" -> IF Ch(s) = "\"" THEN ForwardSetState(s, "DEFAULT") ELSE s
      [] s.state = "STRING_SQ" -> IF Ch(s) = "'" THEN ForwardSetState(s, "DEFAULT") ELSE s
      [] s.state = "NUMBER" -> IF ~IsADigit(Ch(s)) THEN SetState(s, "DEFAULT") ELSE s
      [] s.state = "VARIABLE" -> IF ~IsPSWordChar(Ch(s)) THEN SetState(s, "DEFAULT") ELSE s
      [] s.state = "OPERATOR" -> IF ~isoperator(Ch(s)) THEN SetState(s, "DEFAULT") ELSE s
      [] s.state = "IDENTIFIER" ->
            IF ~IsPSWordChar(Ch(s)) THEN
                LET w == Lowered(GetCurrent(s, 128)) IN
                SetState(IF w \in PSKeywords THEN ChangeState(s, "KEYWORD")
                         ELSE IF w \in PSCmdlets THEN ChangeState(s, "CMDLET")
                         ELSE IF w \in PSAliases THEN ChangeState(s, "ALIAS")
                         ELSE IF w \in PSFunctions THEN ChangeState(s, "FUNCTION")
                         ELSE IF w \in PSUser1 THEN ChangeState(s, "USER1")
                         ELSE s, "DEFAULT")
            ELSE s
      [] OTHER -> s

\* A new token in the DEFAULT state: lines 111-129.
PSEnter(s) ==
    IF s.state # "DEFAULT" THEN s
    ELSE IF Ch(s) = "#" THEN SetState(s, "COMMENT")
    ELSE IF Ch(s) = "<" /\ ChNext(s) = "#" THEN SetState(s, "COMMENTSTREAM")
    ELSE IF Ch(s) = "\"" THEN SetState(s, "STRING_DQ")
    ELSE IF Ch(s) = "'" THEN SetState(s, "STRING_SQ")
    ELSE IF Ch(s) = "$" THEN SetState(s, "VARIABLE")
    ELSE IF IsNumberStart(Ch(s), ChNext(s)) THEN SetState(s, "NUMBER")
    ELSE IF isoperator(Ch(s)) THEN SetState(s, "OPERATOR")
    ELSE IF IsPSWordChar(Ch(s)) THEN SetState(s, "IDENTIFIER")
    ELSE s

\* One iteration of the for loop of ColourisePowerShellDoc, its sc.Forward() included.
PSLoopBody(s) == Forward(PSEnter(PSTerminate(s)))

\* A pass that does not take up the style recorded before its range.
PSBeginDefault(startPos, length, initStyle, styles, ls) == StyleContext(startPos, length, "DEFAULT", styles, ls)

PSBegin(startPos, length, initStyle, styles, ls) == StyleContext(startPos, length, initStyle, styles, ls)

PSLines == {<<>>, <<"#"," ","c">>, <<"<","#"," ","c">>, <<"d"," ","#",">">>, <<"i","f"," ","(","$","a",")"," ","{">>,
            <<"}">>, <<"\"","s","{">>, <<"t","\"">>, <<"'","}","'">>, <<"G","e","t","-","I","t","e","m"," ","1">>,
            <<"f","u","n","c","t","i","o","n"," ","f"," ","{","}">>, <<"<","#",">">>, <<"{","{">>,
            <<"$","x","=","l","s">>}

InitPS ==
    /\ lang = "powershell"
    /\ doc \in DocsOf(PSLines)
    /\ phase = "full" /\ pc = "start" /\ split = 0
    /\ lx = IdlePass
    /\ full = IdlePass
    /\ EditorIdle

ColourisePowerShellDocBegin ==
    /\ lang = "powershell" /\ pc = "start" /\ Lexing
    /\ lx' = PSBegin(PassStart, PassLength, PassInitStyle, PassStyles, PassLineStates)
    /\ pc' = "loop"
    /\ UNCHANGED <<lang, doc, phase, split, full, editor>>

ColourisePowerShellDocStep ==
    /\ lang = "powershell" /\ pc = "loop" /\ Lexing /\ More(lx)
    /\ lx' = PSLoopBody(lx)
    /\ UNCHANGED <<lang, doc, phase, pc, split, full, editor>>

ColourisePowerShellDocComplete ==
    /\ lang = "powershell" /\ pc = "loop" /\ Lexing /\ ~More(lx)
    /\ lx' = Complete(lx)
    /\ pc' = "done"
    /\ UNCHANGED <<lang, doc, phase, split, full, editor>>

\* ============================================================ VHDL
VHDLKeywords == {<<"a","r","c","h","i","t","e","c","t","u","r","e">>, <<"b","e","g","i","n">>, <<"e","n","d">>,
                 <<"i","s">>, <<"o","f">>, <<"e","n","t","i","t","y">>, <<"p","r","o","c","e","s","s">>,
                 <<"i","f">>, <<"t","h","e","n">>, <<"e","l","s","i","f">>, <<"f","u","n","c","t","i","o","n">>,
                 <<"r","e","t","u","r","n">>}
VHDLOperators == {<<"a","n","d">>}
VHDLAttributes == {<<"l","e","f","t">>}
VHDLFunctions == {<<"n","o","w">>}
VHDLPackages == {<<"s","t","d">>}
VHDLTypes == {<<"b","i","t">>}
VHDLUser == {<<"m","y">>}

\* The current state's end: lines 61-108.
VHDLTerminate(s) ==
    CASE s.state = "OPERATOR" -> SetState(s, "DEFAULT")
      [] s.state = "NUMBER" ->
            IF ~iswordchar(Ch(s)) /\ Ch(s) # "#" THEN SetState(s, "DEFAULT") ELSE s
      [] s.state = "IDENTIFIER" ->
            IF ~iswordstart(Ch(s)) THEN
                LET w == Lowered(GetCurrent(s, 128)) IN
                SetState(IF w \in VHDLKeywords THEN ChangeState(s, "KEYWORD")
                         ELSE IF w \in VHDLOperators THEN ChangeState(s, "STDOPERATOR")
                         ELSE IF w \in VHDLAttributes THEN ChangeState(s, "ATTRIBUTE")
                         ELSE IF w \in VHDLFunctions THEN ChangeState(s, "STDFUNCTION")
                         ELSE IF w \in VHDLPackages THEN ChangeState(s, "STDPACKAGE")
                         ELSE IF w \in VHDLTypes THEN ChangeState(s, "STDTYPE")
                         ELSE IF w \in VHDLUser THEN ChangeState(s, "USERWORD")
                         ELSE s, "DEFAULT")
            ELSE s
      [] s.state \in {"COMMENT", "COMMENTLINEBANG"} ->
            IF AtLineStart(s) THEN SetState(s, "DEFAULT") ELSE s
      [] s.state = "STRING" ->
            IF Ch(s) = "\\" THEN
                (IF ChNext(s) \in {"\"", "'", "\\"} THEN Forward(s) ELSE s)
            ELSE IF Ch(s) = "\"" THEN ForwardSetState(s, "DEFAULT")
            ELSE IF AtLineEnd(s) THEN ForwardSetState(ChangeState(s, "STRINGEOL"), "DEFAULT")
            ELSE s
      [] s.state = "BLOCK_COMMENT" ->
            IF Match2(s, "*", "/") THEN ForwardSetState(Forward(s), "DEFAULT") ELSE s
      [] OTHER -> s

\* A new token in the DEFAULT state: lines 111-128.
VHDLEnter(s) ==
    IF s.state # "DEFAULT" THEN s
    ELSE IF IsNumberStart(Ch(s), ChNext(s)) THEN SetState(s, "NUMBER")
    ELSE IF iswordstart(Ch(s)) THEN SetState(s, "IDENTIFIER")
    ELSE IF Match2(s, "-", "-")
    THEN SetState(s, IF GetRelative(s, 2) = "!" THEN "COMMENTLINEBANG" ELSE "COMMENT")
    ELSE IF Match2(s, "/", "*") THEN SetState(s, "BLOCK_COMMENT")
    ELSE IF Ch(s) = "\"" THEN SetState(s, "STRING")
    ELSE IF isoperator(Ch(s)) THEN SetState(s, "OPERATOR")
    ELSE s

\* One iteration of the for loop of ColouriseVHDLDoc, its sc.Forward() included.
VHDLLoopBody(s) == Forward(VHDLEnter(VHDLTerminate(s)))

VHDLBegin(startPos, length, initStyle, styles, ls) == StyleContext(startPos, length, initStyle, styles, ls)

VHDLLines == {<<>>, <<"a","r","c","h","i","t","e","c","t","u","r","e"," ","a"," ","i","s">>, <<"b","e","g","i","n">>,
              <<"e","n","d",";">>, <<"p","r","o","c","e","s","s">>, <<"-","-"," ","c">>, <<"/","*"," ","c">>,
              <<"d"," ","*","/">>, <<"\"","s">>, <<"x"," ","<","="," ","(","1",")",";">>,
              <<"u",":"," ","e","n","t","i","t","y"," ","w",";">>, <<"i","f"," ","a"," ","t","h","e","n">>,
              <<"e","n","d"," ","i","f",";">>, <<"f","u","n","c","t","i","o","n"," ","f"," ","r","e","t","u","r","n"," ","b","i","t"," ","i","s">>,
              <<"e","n","t","i","t","y"," ","e"," ","i","s">>, <<"(">>}

InitVHDL ==
    /\ lang = "vhdl"
    /\ doc \in DocsOf(VHDLLines)
    /\ phase = "full" /\ pc = "start" /\ split = 0
    /\ lx = IdlePass
    /\ full = IdlePass
    /\ EditorIdle

ColouriseVHDLDocBegin ==
    /\ lang = "vhdl" /\ pc = "start" /\ Lexing
    /\ lx' = VHDLBegin(PassStart, PassLength, PassInitStyle, PassStyles, PassLineStates)
    /\ pc' = "loop"
    /\ UNCHANGED <<lang, doc, phase, split, full, editor>>

ColouriseVHDLDocStep ==
    /\ lang = "vhdl" /\ pc = "loop" /\ Lexing /\ More(lx)
    /\ lx' = VHDLLoopBody(lx)
    /\ UNCHANGED <<lang, doc, phase, pc, split, full, editor>>

ColouriseVHDLDocComplete ==
    /\ lang = "vhdl" /\ pc = "loop" /\ Lexing /\ ~More(lx)
    /\ lx' = Complete(lx)
    /\ pc' = "done"
    /\ UNCHANGED <<lang, doc, phase, split, full, editor>>

\* ------------------------------------------------------------ fold levels (LexAccessor)
SC_FOLDLEVELBASE == 1024
SC_FOLDLEVELHEADERFLAG == 8192

\* The host's call of a Folder: the whole document after it has been lexed, or, after that,
\* the lines from a line start on with the style just before it.
Folding == phase \in {"fold", "refold"}
FoldStart == IF phase = "refold" THEN split ELSE 0
FoldLength == Len(doc) - FoldStart
FoldInitStyle == IF FoldStart > 0 THEN StyleAt(lx, FoldStart - 1) ELSE "DEFAULT"

\* A document before its first folding: every line at the base level.
BlankLevels == [i \in 1..(lineDocEnd + 1) |-> SC_FOLDLEVELBASE]
NoLines == [i \in 1..(lineDocEnd + 1) |-> 0]

LevelAt(s, line) == IF line >= 0 /\ line < Len(s.levels) THEN s.levels[line + 1] ELSE SC_FOLDLEVELBASE
SetLevel(s, line, lev) ==
    IF line >= 0 /\ line < Len(s.levels)
    THEN [s EXCEPT !.levels[line + 1] = lev, !.setLevel[line + 1] = @ + 1]
    ELSE s

\* What a Folder works on: the styles and line states the Colourizer left and the levels the
\* document holds.  Kept beside them, for the pass, are the lines it has committed (seen), how
\* often SetLevel was called for each line (setLevel), and a tally per line of the nesting
\* events of the characters of that line (evChar), of its comment/import block edge (evEdge)
\* and of the lines whose level counted the brace that opens the next line (moved).
\* Kept too, for telling one construct from the next: the runs the Colourizer committed for the
\* whole document and the state in which it ended.
FoldPass(s, levels) ==
    [styles |-> s.styles, ls |-> s.ls, levels |-> levels,
     setLevel |-> NoLines, seen |-> {}, evChar |-> NoLines, evEdge |-> NoLines, moved |-> NoLines,
     runs |-> s.runs, endState |-> IF "endState" \in DOMAIN s THEN s.endState ELSE s.state]

Event(s, p, d) == IF d = 0 THEN s ELSE [s EXCEPT !.evChar[GetLine(p) + 1] = @ + d]
EdgeEvent(s, line, d) == IF d = 0 THEN s ELSE [s EXCEPT !.evEdge[line + 1] = @ + d]

\* int lev = levelUse | levelNext << 16; if (levelUse < levelNext) lev |= SC_FOLDLEVELHEADERFLAG;
FoldLevel(levelUse, levelNext) ==
    LET lev == BitOr(levelUse, ShiftLeft(levelNext, 16))
    IN IF levelUse < levelNext THEN BitOr(lev, SC_FOLDLEVELHEADERFLAG) ELSE lev

\* if (lev != styler.LevelAt(lineCurrent)) styler.SetLevel(lineCurrent, lev);
SetLevelIfChanged(s, line, lev) ==
    [(IF lev # LevelAt(s, line) THEN SetLevel(s, line, lev) ELSE s) EXCEPT !.seen = @ \cup {line}]

\* levelCurrent at the start of a pass, taken as the base level wherever the pass starts.
FoldLevelStartBase(s, lineCurrent) == SC_FOLDLEVELBASE

\* levelCurrent at the start of a pass
FoldLevelStart(s, lineCurrent) ==
    IF lineCurrent > 0 THEN ShiftRight(LevelAt(s, lineCurrent - 1), 16) ELSE SC_FOLDLEVELBASE

\* ------------------------------------------------------------ FoldPowerShellDoc (LexPowerShell.cxx)
\* The change of levelNext at one character: lines 154-166.
PSFoldEvent(ch, stylePrev, style, styleNext) ==
    IF style = "OPERATOR" THEN (IF ch = "{" THEN 1 ELSE IF ch = "}" THEN -1 ELSE 0)
    ELSE IF style = "COMMENTSTREAM"
    THEN (IF stylePrev # "COMMENTSTREAM" THEN 1 ELSE IF styleNext # "COMMENTSTREAM" THEN -1 ELSE 0)
    ELSE 0

FoldPSBegin(startPos, length, initStyle, s) ==
    LET lineCurrent == GetLine(startPos)
        levelCurrent == FoldLevelStart(s, lineCurrent)
    IN Merge(s, [i |-> startPos, startPos |-> startPos, endPos |-> startPos + length,
                 lineCurrent |-> lineCurrent, levelCurrent |-> levelCurrent, levelNext |-> levelCurrent,
                 chNext |-> CharAt(startPos), styleNext |-> StyleAt(s, startPos), style |-> initStyle])

\* One iteration that at a commit also gives the line before the committed one the level of
\* the committed line, as a Folder that fiddles the previous line for `} else {` would.
FoldPSLoopBodyFiddle(s) ==
    LET ch == s.chNext
        chNext == CharAt(s.i + 1)
        stylePrev == s.style
        style == s.styleNext
        styleNext == StyleAt(s, s.i + 1)
        atEOL == ch = LF
        d == PSFoldEvent(ch, stylePrev, style, styleNext)
        s1 == [Event(s, s.i, d) EXCEPT !.levelNext = @ + d, !.chNext = chNext,
                                       !.style = style, !.styleNext = styleNext]
        s2 == IF atEOL \/ s.i = s.endPos - 1
              THEN [SetLevel(SetLevelIfChanged(s1, s1.lineCurrent, FoldLevel(s1.levelCurrent, s1.levelNext)),
                             s1.lineCurrent - 1, FoldLevel(s1.levelCurrent, s1.levelCurrent))
                        EXCEPT !.lineCurrent = @ + 1, !.levelCurrent = s1.levelNext]
              ELSE s1
    IN [s2 EXCEPT !.i = @ + 1]

\* One iteration of the for loop: lines 146-177.
FoldPSLoopBody(s) ==
    LET ch == s.chNext
        chNext == CharAt(s.i + 1)
        stylePrev == s.style
        style == s.styleNext
        styleNext == StyleAt(s, s.i + 1)
        atEOL == ch = LF
        d == PSFoldEvent(ch, stylePrev, style, styleNext)
        s1 == [Event(s, s.i, d) EXCEPT !.levelNext = @ + d, !.chNext = chNext,
                                       !.style = style, !.styleNext = styleNext]
        s2 == IF atEOL \/ s.i = s.endPos - 1
              THEN [SetLevelIfChanged(s1, s1.lineCurrent, FoldLevel(s1.levelCurrent, s1.levelNext))
                        EXCEPT !.lineCurrent = @ + 1, !.levelCurrent = s1.levelNext]
              ELSE s1
    IN [s2 EXCEPT !.i = @ + 1]

FoldPowerShellDocBegin ==
    /\ lang = "powershell" /\ Folding /\ pc = "start"
    /\ lx' = FoldPSBegin(FoldStart, FoldLength, FoldInitStyle, FoldPass(lx, lx.levels))
    /\ pc' = "loop"
    /\ UNCHANGED <<lang, doc, phase, split, full, editor>>

FoldPowerShellDocStep ==
    /\ lang = "powershell" /\ Folding /\ pc = "loop" /\ lx.i < lx.endPos
    /\ lx' = FoldPSLoopBody(lx)
    /\ UNCHANGED <<lang, doc, phase, pc, split, full, editor>>

FoldPowerShellDocReturn ==
    /\ lang = "powershell" /\ Folding /\ pc = "loop" /\ ~(lx.i < lx.endPos)
    /\ pc' = "done"
    /\ UNCHANGED <<lang, doc, phase, split, lx, full, editor>>

\* ------------------------------------------------------------ FoldCMakeDoc (part_002)
GetLineCommentState(lineState) == BitAnd(lineState, 1)

StrStartsWith(s, prefix) == Len(s) >= Len(prefix) /\ SubSeq(s, 1, Len(prefix)) = prefix

CMakeFoldOpeners == {<<"i","f">>, <<"f","u","n","c","t","i","o","n">>, <<"m","a","c","r","o">>,
                     <<"f","o","r","e","a","c","h">>, <<"w","h","i","l","e">>}
CMakeMaxFoldWordLength == 15

FoldCMakeBegin(startPos, length, initStyle, s) ==
    LET lineCurrent == GetLine(startPos)
        levelCurrent == FoldLevelStart(s, lineCurrent)
    IN Merge(s, [i |-> startPos, startPos |-> startPos, endPos |-> startPos + length,
                 lineCurrent |-> lineCurrent, levelCurrent |-> levelCurrent, levelNext |-> levelCurrent,
                 lineCommentPrev |-> IF lineCurrent > 0
                                     THEN GetLineCommentState(GetLineState(s, lineCurrent - 1)) ELSE 0,
                 lineCommentCurrent |-> GetLineCommentState(GetLineState(s, lineCurrent)),
                 lineEndPos |-> Min(LineStart(lineCurrent + 1), startPos + length) - 1,
                 styleNext |-> StyleAt(s, startPos), style |-> initStyle, buf |-> <<>>])

\* The switch of the loop body: lines 354-386.  Gives the word buffer and the change of levelNext.
CMakeFoldEvent(s, stylePrev, style, styleNext) ==
    IF style \in {"BLOCK_COMMENT", "BRACKET_ARGUMENT"}
    THEN [buf |-> s.buf, d |-> IF style # stylePrev THEN 1 ELSE IF style # styleNext THEN -1 ELSE 0]
    ELSE IF style = "OPERATOR"
    THEN [buf |-> s.buf, d |-> IF CharAt(s.i) = "(" THEN 1 ELSE IF CharAt(s.i) = ")" THEN -1 ELSE 0]
    ELSE IF style = "WORD"
    THEN LET buf == IF Len(s.buf) < CMakeMaxFoldWordLength
                    THEN Append(s.buf, MakeLowerCase(CharAt(s.i))) ELSE s.buf
         IN IF styleNext # "WORD"
            THEN [buf |-> <<>>, d |-> IF StrStartsWith(buf, <<"e","n","d">>) THEN -1
                                      ELSE IF buf \in CMakeFoldOpeners THEN 1 ELSE 0]
            ELSE [buf |-> buf, d |-> 0]
    ELSE [buf |-> s.buf, d |-> 0]

\* One iteration of the for loop: lines 349-412.
FoldCMakeLoopBody(s) ==
    LET stylePrev == s.style
        style == s.styleNext
        styleNext == StyleAt(s, s.i + 1)
        e == CMakeFoldEvent(s, stylePrev, style, styleNext)
        s1 == [Event(s, s.i, e.d) EXCEPT !.levelNext = @ + e.d, !.buf = e.buf,
                                         !.style = style, !.styleNext = styleNext]
        lineCommentNext == GetLineCommentState(GetLineState(s, s.lineCurrent + 1))
        edge == IF s.lineCommentCurrent # 0 THEN lineCommentNext - s.lineCommentPrev ELSE 0
        s2 == [EdgeEvent(s1, s.lineCurrent, edge) EXCEPT !.levelNext = @ + edge]
        s3 == IF s.i = s.lineEndPos
              THEN [SetLevelIfChanged(s2, s2.lineCurrent, FoldLevel(s2.levelCurrent, s2.levelNext))
                        EXCEPT !.lineCurrent = @ + 1,
                               !.lineEndPos = Min(LineStart(s.lineCurrent + 2), s.endPos) - 1,
                               !.levelCurrent = s2.levelNext,
                               !.lineCommentPrev = s.lineCommentCurrent,
                               !.lineCommentCurrent = lineCommentNext]
              ELSE s1
    IN [s3 EXCEPT !.i = @ + 1]

FoldCMakeDocBegin ==
    /\ lang = "cmake" /\ Folding /\ pc = "start"
    /\ lx' = FoldCMakeBegin(FoldStart, FoldLength, FoldInitStyle, FoldPass(lx, lx.levels))
    /\ pc' = "loop"
    /\ UNCHANGED <<lang, doc, phase, split, full, editor>>

FoldCMakeDocStep ==
    /\ lang = "cmake" /\ Folding /\ pc = "loop" /\ lx.i < lx.endPos
    /\ lx' = FoldCMakeLoopBody(lx)
    /\ UNCHANGED <<lang, doc, phase, pc, split, full, editor>>

FoldCMakeDocReturn ==
    /\ lang = "cmake" /\ Folding /\ pc = "loop" /\ ~(lx.i < lx.endPos)
    /\ pc' = "done"
    /\ UNCHANGED <<lang, doc, phase, split, lx, full, editor>>

\* ------------------------------------------------------------ LexerUtils: brace on the next line
\* The last position in [from, p] whose style is not one of spaceStyles, from - 1 if none.
RECURSIVE LastVisible(_, _, _, _)
LastVisible(s, from, p, spaceStyles) ==
    IF p < from THEN from - 1
    ELSE IF StyleAt(s, p) \notin spaceStyles THEN p
    ELSE LastVisible(s, from, p - 1, spaceStyles)

\* CheckBraceOnNextLine(styler, line, operatorStyle, maxSpaceStyle): the position of a `{` that
\* is the first character, blanks apart, of the line after `line`, when `line` holds code that
\* does not end with an operator other than ) > = : ] ^ ? *; 0 otherwise.
CheckBraceOnNextLine(s, line, operatorStyle, spaceStyles) ==
    LET startPos == LineStart(line + 1)
        bracePos == SkipChars(startPos, {" ", "\t"})
        endPos == LastVisible(s, LineStart(line), startPos - 1, spaceStyles)
    IN IF CharAt(bracePos) # "{" \/ StyleAt(s, bracePos) # operatorStyle THEN 0
       ELSE IF endPos < LineStart(line) THEN 0
       ELSE IF StyleAt(s, endPos) = operatorStyle
               /\ CharAt(endPos) \notin {")", ">", "=", ":", "]", "^", "?", "*"} THEN 0
       ELSE bracePos

\* The brace that opens the line after `line` has been counted at `line`.
BraceMoved(s, line) == IF line >= 0 /\ line < Len(s.moved) THEN [s EXCEPT !.moved[line + 1] = 1] ELSE s

\* ------------------------------------------------------------ FoldAsyDoc (part_000)
AsySpaceStyles == {"DEFAULT", "COMMENTLINE", "COMMENTBLOCK", "TASKMARKER"}

AsyFoldLineState(lineState) ==
    [lineComment |-> BitAnd(lineState, 1), moduleImport |-> BitAnd(ShiftRight(lineState, 1), 1)]

IsMultilineStringStyle(style) == style \in {"STRING_SQ", "STRING_DQ", "ESCAPECHAR"}

\* The switch of the loop body with a string told from its neighbours by its own style alone,
\* as a block comment is.
AsyFoldEventByStyle(ch, stylePrev, style, styleNext) ==
    IF style \in {"COMMENTBLOCK", "STRING_SQ", "STRING_DQ"}
    THEN (IF style # stylePrev THEN 1 ELSE IF style # styleNext THEN -1 ELSE 0)
    ELSE IF style = "OPERATOR"
    THEN (IF ch \in {"{", "[", "("} THEN 1 ELSE IF ch \in {"}", "]", ")"} THEN -1 ELSE 0)
    ELSE 0

\* The switch of the loop body: lines 264-289.
AsyFoldEvent(ch, stylePrev, style, styleNext) ==
    IF style = "COMMENTBLOCK"
    THEN (IF style # stylePrev THEN 1 ELSE IF style # styleNext THEN -1 ELSE 0)
    ELSE IF style \in {"STRING_SQ", "STRING_DQ"}
    THEN (IF ~IsMultilineStringStyle(stylePrev) THEN 1
          ELSE IF ~IsMultilineStringStyle(styleNext) THEN -1 ELSE 0)
    ELSE IF style = "OPERATOR"
    THEN (IF ch \in {"{", "[", "("} THEN 1 ELSE IF ch \in {"}", "]", ")"} THEN -1 ELSE 0)
    ELSE 0

\* Lines 236-257: the start of the pass.
FoldAsyBegin(startPos, length, initStyle, s) ==
    LET lineCurrent == GetLine(startPos)
        levelCurrent == FoldLevelStart(s, lineCurrent)
        bracePos == IF lineCurrent > 0
                    THEN CheckBraceOnNextLine(s, lineCurrent - 1, "OPERATOR", AsySpaceStyles)
                    ELSE 0
        start == IF bracePos # 0 THEN bracePos + 1 ELSE startPos
        s0 == IF bracePos # 0 THEN BraceMoved(s, lineCurrent - 1) ELSE s
    IN Merge(s0, [i |-> start, startPos |-> startPos, endPos |-> startPos + length,
                  lineCurrent |-> lineCurrent, levelCurrent |-> levelCurrent, levelNext |-> levelCurrent,
                  foldPrev |-> IF lineCurrent > 0 THEN AsyFoldLineState(GetLineState(s, lineCurrent - 1))
                               ELSE AsyFoldLineState(0),
                  foldCurrent |-> AsyFoldLineState(GetLineState(s, lineCurrent)),
                  lineEndPos |-> Min(LineStart(lineCurrent + 1), startPos + length) - 1,
                  styleNext |-> StyleAt(s, start), style |-> initStyle, visibleChars |-> 0])

\* The end of a line with the flag of the previous line left out of a block's edge.
FoldAsyLineEndNoPrev(s) ==
    LET foldNext == AsyFoldLineState(GetLineState(s, s.lineCurrent + 1))
        edge == IF s.foldCurrent.lineComment # 0 THEN foldNext.lineComment
                ELSE IF s.foldCurrent.moduleImport # 0 THEN foldNext.moduleImport
                ELSE 0
        s1 == [EdgeEvent(s, s.lineCurrent, edge) EXCEPT !.levelNext = @ + edge]
    IN [SetLevelIfChanged(s1, s.lineCurrent, FoldLevel(s1.levelCurrent, s1.levelNext))
            EXCEPT !.lineCurrent = @ + 1,
                   !.lineEndPos = Min(LineStart(s.lineCurrent + 2), s.endPos) - 1,
                   !.levelCurrent = s1.levelNext,
                   !.foldPrev = s.foldCurrent, !.foldCurrent = foldNext, !.visibleChars = 0]

\* Lines 294-326: the end of a line.
FoldAsyLineEnd(s) ==
    LET foldNext == AsyFoldLineState(GetLineState(s, s.lineCurrent + 1))
        edge == IF s.foldCurrent.lineComment # 0 THEN foldNext.lineComment - s.foldPrev.lineComment
                ELSE IF s.foldCurrent.moduleImport # 0 THEN foldNext.moduleImport - s.foldPrev.moduleImport
                ELSE 0
        bracePos == IF s.foldCurrent.lineComment = 0 /\ s.foldCurrent.moduleImport = 0 /\ s.visibleChars # 0
                    THEN CheckBraceOnNextLine(s, s.lineCurrent, "OPERATOR", AsySpaceStyles)
                    ELSE 0
        s1 == [EdgeEvent(s, s.lineCurrent, edge) EXCEPT !.levelNext = @ + edge]
        s2 == IF bracePos # 0
              THEN [BraceMoved(s1, s.lineCurrent) EXCEPT !.levelNext = @ + 1, !.i = bracePos,
                        !.style = "OPERATOR", !.styleNext = StyleAt(s, bracePos + 1)]
              ELSE s1
    IN [SetLevelIfChanged(s2, s.lineCurrent, FoldLevel(s2.levelCurrent, s2.levelNext))
            EXCEPT !.lineCurrent = @ + 1,
                   !.lineEndPos = Min(LineStart(s.lineCurrent + 2), s.endPos) - 1,
                   !.levelCurrent = s2.levelNext,
                   !.foldPrev = s.foldCurrent, !.foldCurrent = foldNext, !.visibleChars = 0]

\* One iteration of the for loop: lines 259-328.
FoldAsyLoopBody(s) ==
    LET stylePrev == s.style
        style == s.styleNext
        styleNext == StyleAt(s, s.i + 1)
        d == AsyFoldEvent(CharAt(s.i), stylePrev, style, styleNext)
        s1 == [Event(s, s.i, d) EXCEPT !.levelNext = @ + d, !.style = style, !.styleNext = styleNext,
                   !.visibleChars = IF @ = 0 /\ ~AsyIsSpaceEquiv(style) THEN 1 ELSE @]
        s2 == IF s.i = s.lineEndPos THEN FoldAsyLineEnd(s1) ELSE s1
    IN [s2 EXCEPT !.i = @ + 1]

FoldAsyDocBegin ==
    /\ lang = "asy" /\ Folding /\ pc = "start"
    /\ lx' = FoldAsyBegin(FoldStart, FoldLength, FoldInitStyle, FoldPass(lx, lx.levels))
    /\ pc' = "loop"
    /\ UNCHANGED <<lang, doc, phase, split, full, editor>>

FoldAsyDocStep ==
    /\ lang = "asy" /\ Folding /\ pc = "loop" /\ lx.i < lx.endPos
    /\ lx' = FoldAsyLoopBody(lx)
    /\ UNCHANGED <<lang, doc, phase, pc, split, full, editor>>

FoldAsyDocReturn ==
    /\ lang = "asy" /\ Folding /\ pc = "loop" /\ ~(lx.i < lx.endPos)
    /\ pc' = "done"
    /\ UNCHANGED <<lang, doc, phase, split, lx, full, editor>>

\* ------------------------------------------------------------ FoldDartDoc (LexPowerShell.cxx)
DartFoldLineState(lineState) ==
    [lineComment |-> BitAnd(lineState, 1), packageImport |-> BitAnd(ShiftRight(lineState, 1), 1)]

DartTripleStringStyles ==
    {"TRIPLE_RAWSTRING_SQ", "TRIPLE_RAWSTRING_DQ", "TRIPLE_STRING_SQ", "TRIPLE_STRING_DQ"}

\* The switch of the loop body, lines 651-683: the change of levelNext, and whether the
\* character after ch is skipped with it.
DartFoldEvent(ch, chNext, stylePrev, style, styleNext) ==
    IF style \in {"COMMENTBLOCKDOC", "COMMENTBLOCK"}
    THEN LET level == IF ch = "/" /\ chNext = "*" THEN 1 ELSE IF ch = "*" /\ chNext = "/" THEN -1 ELSE 0
         IN [d |-> level, skip |-> level # 0]
    ELSE IF style \in DartTripleStringStyles
    THEN [d |-> (IF style # stylePrev THEN 1 ELSE 0) - (IF style # styleNext THEN 1 ELSE 0), skip |-> FALSE]
    ELSE IF style \in {"OPERATOR", "OPERATOR2"}
    THEN [d |-> IF ch \in {"{", "[", "("} THEN 1 ELSE IF ch \in {"}", "]", ")"} THEN -1 ELSE 0,
          skip |-> FALSE]
    ELSE [d |-> 0, skip |-> FALSE]

\* levelNext = sci::max(levelNext, SC_FOLDLEVELBASE): line 690.
FoldDartLevelUnbounded(levelNext) == levelNext

FoldDartLevelNext(levelNext) == Max(levelNext, SC_FOLDLEVELBASE)

\* Lines 620-642: the start of the pass.  The cursor the code calls startPos is the field i.
FoldDartBegin(startPos, length, initStyle, s) ==
    LET lineCurrent == GetLine(startPos)
        levelCurrent == FoldLevelStart(s, lineCurrent)
        bracePos == IF lineCurrent > 0
                    THEN CheckBraceOnNextLine(s, lineCurrent - 1, "OPERATOR", DartSpaceStyles)
                    ELSE 0
        start == IF bracePos # 0 THEN bracePos + 1 ELSE startPos
        s0 == IF bracePos # 0 THEN BraceMoved(s, lineCurrent - 1) ELSE s
    IN Merge(s0, [i |-> start, startPos |-> startPos, endPos |-> startPos + length,
                  lineCurrent |-> lineCurrent, levelCurrent |-> levelCurrent, levelNext |-> levelCurrent,
                  foldPrev |-> IF lineCurrent > 0 THEN DartFoldLineState(GetLineState(s, lineCurrent - 1))
                               ELSE DartFoldLineState(0),
                  foldCurrent |-> DartFoldLineState(GetLineState(s, lineCurrent)),
                  lineStartNext |-> Min(LineStart(lineCurrent + 1), startPos + length),
                  chNext |-> CharAt(start), styleNext |-> StyleAt(s, start), style |-> initStyle,
                  visibleChars |-> 0])

\* Lines 688-720: the end of a line.
FoldDartLineEnd(s) ==
    LET foldNext == DartFoldLineState(GetLineState(s, s.lineCurrent + 1))
        levelNext == FoldDartLevelNext(s.levelNext)
        edge == IF s.foldCurrent.lineComment # 0 THEN foldNext.lineComment - s.foldPrev.lineComment
                ELSE IF s.foldCurrent.packageImport # 0 THEN foldNext.packageImport - s.foldPrev.packageImport
                ELSE 0
        bracePos == IF s.foldCurrent.lineComment = 0 /\ s.foldCurrent.packageImport = 0 /\ s.visibleChars # 0
                    THEN CheckBraceOnNextLine(s, s.lineCurrent, "OPERATOR", DartSpaceStyles)
                    ELSE 0
        s1 == [EdgeEvent(s, s.lineCurrent, edge) EXCEPT !.levelNext = levelNext + edge]
        s2 == IF bracePos # 0
              THEN [BraceMoved(s1, s.lineCurrent) EXCEPT !.levelNext = @ + 1, !.i = bracePos + 1,
                        !.style = "OPERATOR", !.chNext = CharAt(bracePos + 1),
                        !.styleNext = StyleAt(s, bracePos + 1)]
              ELSE s1
    IN [SetLevel(s2, s.lineCurrent, FoldLevel(s2.levelCurrent, s2.levelNext))
            EXCEPT !.seen = @ \cup {s.lineCurrent},
                   !.lineCurrent = @ + 1,
                   !.lineStartNext = Min(LineStart(s.lineCurrent + 2), s.endPos),
                   !.levelCurrent = s2.levelNext,
                   !.foldPrev = s.foldCurrent, !.foldCurrent = foldNext, !.visibleChars = 0]

\* One iteration of the while loop: lines 644-721.
FoldDartLoopBody(s) ==
    LET ch == s.chNext
        stylePrev == s.style
        style == s.styleNext
        p1 == s.i + 1
        e == DartFoldEvent(ch, CharAt(p1), stylePrev, style, StyleAt(s, p1))
        p2 == IF e.skip THEN p1 + 1 ELSE p1
        s1 == [Event(s, s.i, e.d) EXCEPT !.levelNext = @ + e.d, !.i = p2, !.style = style,
                   !.chNext = CharAt(p2), !.styleNext = StyleAt(s, p2),
                   !.visibleChars = IF @ = 0 /\ ~DartIsSpaceEquiv(style) THEN 1 ELSE @]
    IN IF s1.i = s1.lineStartNext THEN FoldDartLineEnd(s1) ELSE s1

FoldDartDocBegin ==
    /\ lang = "dart" /\ Folding /\ pc = "start"
    /\ lx' = FoldDartBegin(FoldStart, FoldLength, FoldInitStyle, FoldPass(lx, lx.levels))
    /\ pc' = "loop"
    /\ UNCHANGED <<lang, doc, phase, split, full, editor>>

FoldDartDocStep ==
    /\ lang = "dart" /\ Folding /\ pc = "loop" /\ lx.i < lx.endPos
    /\ lx' = FoldDartLoopBody(lx)
    /\ UNCHANGED <<lang, doc, phase, pc, split, full, editor>>

FoldDartDocReturn ==
    /\ lang = "dart" /\ Folding /\ pc = "loop" /\ ~(lx.i < lx.endPos)
    /\ pc' = "done"
    /\ UNCHANGED <<lang, doc, phase, split, lx, full, editor>>

\* ------------------------------------------------------------ FoldVHDLDoc (part_001)
\* The styles in the order of their numbers SCE_VHDL_DEFAULT = 0 .. SCE_VHDL_BLOCK_COMMENT = 15.
VHDLStyles == <<"DEFAULT", "COMMENT", "COMMENTLINEBANG", "NUMBER", "STRING", "OPERATOR", "IDENTIFIER",
                "STRINGEOL", "KEYWORD", "STDOPERATOR", "ATTRIBUTE", "STDFUNCTION", "STDPACKAGE",
                "STDTYPE", "USERWORD", "BLOCK_COMMENT">>
VHDLStyleNumber(style) == (CHOOSE i \in 1..Len(VHDLStyles) : VHDLStyles[i] = style) - 1

\* keywordLists[8], the fold keywords the host configures.
VHDLFold == {<<"a","r","c","h","i","t","e","c","t","u","r","e">>, <<"b","e","g","i","n">>,
             <<"b","l","o","c","k">>, <<"c","a","s","e">>, <<"c","o","m","p","o","n","e","n","t">>,
             <<"c","o","n","f","i","g","u","r","a","t","i","o","n">>, <<"e","l","s","e">>,
             <<"e","l","s","i","f">>, <<"e","n","d">>, <<"e","n","t","i","t","y">>,
             <<"f","u","n","c","t","i","o","n">>, <<"g","e","n","e","r","a","t","e">>, <<"l","o","o","p">>,
             <<"p","a","c","k","a","g","e">>, <<"p","r","o","c","e","d","u","r","e">>,
             <<"p","r","o","c","e","s","s">>, <<"r","e","c","o","r","d">>, <<"t","h","e","n">>,
             <<"u","n","i","t","s">>}
\* styler.GetPropertyBool("fold.at.Begin", true): the default, and what the host may set.
VHDLFoldAtBegin == TRUE
VHDLFoldAtBeginValues == BOOLEAN

VHDLIsCommentStyle(style) == style \in {"BLOCK_COMMENT", "COMMENT", "COMMENTLINEBANG"}
IsStreamCommentStyle(style) == style = "BLOCK_COMMENT"

\* IsLexCommentLine(styler, line, styles): the first character of the line that is no blank or
\* tab, or else the position before the next line's start, has one of the styles.
IsLexCommentLine(s, line, styles) ==
    LET startPos == LineStart(line)
        endPos == LineStart(line + 1) - 1
        pos == IF startPos >= endPos THEN endPos ELSE Min(SkipChars(startPos, {" ", "\t"}), endPos)
    IN StyleAt(s, pos) \in styles

\* IsCommentLine(line), as the number C++ adds and subtracts.
VHDLIsCommentLine(s, line) == IF IsLexCommentLine(s, line, {"COMMENT", "COMMENTLINEBANG"}) THEN 1 ELSE 0

VHDLIsCode(style) == ~VHDLIsCommentStyle(style) /\ style # "STRING"

\* The word [from, to], at most 31 characters of it, in lower case.
VHDLWord(from, to) == Lowered(SubSeq(doc, from + 1, from + Min(31, to - from + 1)))

\* Lines 167-192: the fold keyword before startPos, found by going back; j is where it starts.
RECURSIVE VHDLFindPrevWord(_, _, _)
VHDLFindPrevWord(s, j, end) ==
    IF j <= 0 THEN [j |-> 0, prevWord |-> <<>>]
    ELSE LET ch == CharAt(j)
             chPrev == CharAt(j - 1)
             end1 == IF VHDLIsCode(StyleAt(s, j - 1)) /\ iswordchar(chPrev) /\ ~iswordchar(ch)
                     THEN j - 1 ELSE end
         IN IF VHDLIsCode(StyleAt(s, j)) /\ ~iswordchar(chPrev) /\ iswordstart(ch) /\ end1 # 0
               /\ VHDLWord(j, end1) \in VHDLFold
            THEN [j |-> j, prevWord |-> VHDLWord(j, end1)]
            ELSE VHDLFindPrevWord(s, j - 1, end1)

\* Lines 225-234 and 236-242: comment and bracket events at one character.
VHDLCommentEdge(s, atEOL) ==
    IF atEOL /\ VHDLIsCommentLine(s, s.lineCurrent) = 1
    THEN VHDLIsCommentLine(s, s.lineCurrent + 1) - VHDLIsCommentLine(s, s.lineCurrent - 1)
    ELSE 0

VHDLStreamEvent(s, stylePrev, style, styleNext, atEOL) ==
    IF IsStreamCommentStyle(style) /\ VHDLIsCommentLine(s, s.lineCurrent) = 0
    THEN (IF ~IsStreamCommentStyle(stylePrev) THEN 1
          ELSE IF ~IsStreamCommentStyle(styleNext) /\ ~atEOL THEN -1 ELSE 0)
    ELSE 0

\* Lines 269-283: the character before the unit's name, blanks and comments skipped.
RECURSIVE VHDLCharBefore(_, _, _)
VHDLCharBefore(s, pos, chAtPos) ==
    IF pos = 0 THEN chAtPos
    ELSE LET p == pos - 1
             c == CharAt(p)
         IN IF p # 0 /\ (c \in {" ", "\t", LF, "\r"} \/ VHDLIsCommentStyle(StyleAt(s, p)))
            THEN VHDLCharBefore(s, p, c)
            ELSE c

\* Lines 292-311: a procedure or function is a body when `is` comes before the `;` that ends
\* its declaration.
RECURSIVE VHDLHasBody(_, _, _)
VHDLHasBody(s, pos, BracketLevel) ==
    IF pos >= Len(doc) THEN FALSE
    ELSE LET styleAtPos == StyleAt(s, pos)
             chAtPos == CharAt(pos)
             b == BracketLevel + (IF chAtPos = "(" THEN 1 ELSE 0) - (IF chAtPos = ")" THEN 1 ELSE 0)
         IN IF b = 0 /\ VHDLIsCommentLine(s, VHDLStyleNumber(styleAtPos)) = 0 /\ styleAtPos # "STRING"
               /\ ~iswordchar(CharAt(pos - 1)) /\ chAtPos \in {"i", "I"}
               /\ CharAt(pos + 1) \in {"s", "S"} /\ ~iswordchar(CharAt(pos + 2))
            THEN TRUE
            ELSE IF b = 0 /\ chAtPos = ";" THEN FALSE
            ELSE VHDLHasBody(s, pos + 1, b)

VHDLBlockWords == {<<"a","r","c","h","i","t","e","c","t","u","r","e">>, <<"c","a","s","e">>,
                   <<"g","e","n","e","r","a","t","e">>, <<"l","o","o","p">>, <<"b","l","o","c","k">>,
                   <<"p","a","c","k","a","g","e">>, <<"p","r","o","c","e","s","s">>,
                   <<"r","e","c","o","r","d">>, <<"t","h","e","n">>, <<"u","n","i","t","s">>}
VHDLUnitWords == {<<"c","o","m","p","o","n","e","n","t">>, <<"e","n","t","i","t","y">>,
                  <<"c","o","n","f","i","g","u","r","a","t","i","o","n">>}
VHDLSubprogramWords == {<<"p","r","o","c","e","d","u","r","e">>, <<"f","u","n","c","t","i","o","n">>}
VHDLEnd == <<"e","n","d">>

\* Lines 261-320: the change of levelNext at the end of the fold keyword w.
VHDLKeywordEvent(s, w, prevWord, lastStart) ==
    IF w \in VHDLBlockWords THEN (IF prevWord # VHDLEnd THEN 1 ELSE 0)
    ELSE IF w \in VHDLUnitWords
    THEN (IF prevWord # VHDLEnd /\ VHDLCharBefore(s, lastStart, NUL) # ":" THEN 1 ELSE 0)
    ELSE IF w \in VHDLSubprogramWords
    THEN (IF prevWord # VHDLEnd /\ VHDLHasBody(s, s.i + 1, 0) THEN 1 ELSE 0)
    ELSE IF w = VHDLEnd THEN -1
    ELSE IF w = <<"e","l","s","i","f">> THEN -1
    ELSE 0

\* Lines 145-214: the start of the pass.
FoldVHDLBegin(startPos, length, initStyle, s) ==
    LET lineCurrent == GetLine(startPos)
        levelCurrent == FoldLevelStart(s, lineCurrent)
        found == VHDLFindPrevWord(s, startPos, 0)
        semi == \E j \in (found.j + Len(found.prevWord))..(startPos + length - 1) :
                    VHDLIsCode(StyleAt(s, j)) /\ CharAt(j) = ";"
    IN Merge(s, [i |-> startPos, startPos |-> startPos, endPos |-> startPos + length,
                 lineCurrent |-> lineCurrent, levelCurrent |-> levelCurrent,
                 levelMinCurrentBegin |-> levelCurrent, levelNext |-> levelCurrent,
                 lastStart |-> 0, foldAtBegin |-> VHDLFoldAtBegin,
                 prevWord |-> IF semi /\ found.prevWord = VHDLEnd THEN <<";">> ELSE found.prevWord,
                 ch |-> NUL, chNext |-> CharAt(startPos),
                 style |-> "DEFAULT", styleNext |-> StyleAt(s, startPos)])

\* The level a line is committed with: lines 327-331.
VHDLLevelUseAlways(foldAtBegin, levelCurrent, levelMinCurrentBegin) ==
    IF levelMinCurrentBegin < levelCurrent THEN levelMinCurrentBegin ELSE levelCurrent

VHDLLevelUse(foldAtBegin, levelCurrent, levelMinCurrentBegin) ==
    IF foldAtBegin /\ levelMinCurrentBegin < levelCurrent THEN levelMinCurrentBegin ELSE levelCurrent

\* One iteration of the for loop: lines 210-343.
FoldVHDLLoopBody(s) ==
    LET chPrev == s.ch
        ch == s.chNext
        chNext == CharAt(s.i + 1)
        stylePrev == s.style
        style == s.styleNext
        styleNext == StyleAt(s, s.i + 1)
        atEOL == ch = LF
        edge == VHDLCommentEdge(s, atEOL)
        dStream == VHDLStreamEvent(s, stylePrev, style, styleNext, atEOL)
        dOp == IF style = "OPERATOR" THEN (IF ch = "(" THEN 1 ELSE IF ch = ")" THEN -1 ELSE 0) ELSE 0
        code == VHDLIsCode(style)
        prevWord1 == IF code /\ ch = ";" /\ s.prevWord = VHDLEnd THEN <<";">> ELSE s.prevWord
        lastStart == IF code /\ ~iswordchar(chPrev) /\ iswordstart(ch) THEN s.i ELSE s.lastStart
        w == VHDLWord(lastStart, s.i)
        kw == code /\ iswordchar(ch) /\ ~iswordchar(chNext) /\ w \in VHDLFold
        dKw == IF kw THEN VHDLKeywordEvent(s, w, prevWord1, lastStart) ELSE 0
        levelNext == s.levelNext + edge + dStream + dOp + dKw
        atBegin == kw /\ w = <<"b","e","g","i","n">>
                   /\ prevWord1 \in {<<"a","r","c","h","i","t","e","c","t","u","r","e">>,
                                     <<"f","u","n","c","t","i","o","n">>,
                                     <<"p","r","o","c","e","d","u","r","e">>}
        s1 == [EdgeEvent(Event(s, s.i, dStream + dOp + dKw), s.lineCurrent, edge)
                  EXCEPT !.levelNext = levelNext, !.ch = ch, !.chNext = chNext,
                         !.style = style, !.styleNext = styleNext, !.lastStart = lastStart,
                         !.prevWord = IF kw THEN w ELSE prevWord1,
                         !.levelMinCurrentBegin = IF atBegin THEN levelNext - 1 ELSE @]
        s2 == IF atEOL \/ s.i = s.endPos - 1
              THEN [SetLevelIfChanged(s1, s1.lineCurrent,
                                      FoldLevel(VHDLLevelUse(s1.foldAtBegin, s1.levelCurrent, s1.levelMinCurrentBegin),
                                                s1.levelNext))
                        EXCEPT !.lineCurrent = @ + 1, !.levelCurrent = s1.levelNext,
                               !.levelMinCurrentBegin = s1.levelNext]
              ELSE s1
    IN [s2 EXCEPT !.i = @ + 1]

\* The property is the host's: any value for the fold of the whole document, and the same
\* value when the document is folded again.
FoldVHDLDocBegin ==
    /\ lang = "vhdl" /\ Folding /\ pc = "start"
    /\ \E b \in (IF phase = "refold" THEN {lx.foldAtBegin} ELSE VHDLFoldAtBeginValues) :
           lx' = [FoldVHDLBegin(FoldStart, FoldLength, FoldInitStyle, FoldPass(lx, lx.levels))
                      EXCEPT !.foldAtBegin = b]
    /\ pc' = "loop"
    /\ UNCHANGED <<lang, doc, phase, split, full, editor>>

FoldVHDLDocStep ==
    /\ lang = "vhdl" /\ Folding /\ pc = "loop" /\ lx.i < lx.endPos
    /\ lx' = FoldVHDLLoopBody(lx)
    /\ UNCHANGED <<lang, doc, phase, pc, split, full, editor>>

FoldVHDLDocReturn ==
    /\ lang = "vhdl" /\ Folding /\ pc = "loop" /\ ~(lx.i < lx.endPos)
    /\ pc' = "done"
    /\ UNCHANGED <<lang, doc, phase, split, lx, full, editor>>

\* ------------------------------------------------------------ the host
\* After the one-pass run the host lexes the same document again in two passes split at a line start.
SplitAtLine ==
    /\ phase = "full" /\ pc = "done"
    /\ \E b \in LineStarts \ {0} : split' = b
    /\ full' = lx
    /\ phase' = "first" /\ pc' = "start"
    /\ UNCHANGED <<lang, doc, lx, editor>>

SecondPass ==
    /\ phase = "first" /\ pc = "done"
    /\ phase' = "second" /\ pc' = "start"
    /\ UNCHANGED <<lang, doc, split, lx, full, editor>>

\* The host lexes again, unchanged, the lines from a line start on: the start state is the
\* one the first run recorded there.
Relex ==
    /\ phase = "full" /\ pc = "done"
    /\ \E b \in LineStarts : split' = b
    /\ full' = lx
    /\ phase' = "relex" /\ pc' = "start"
    /\ UNCHANGED <<lang, doc, lx, editor>>

Host == SplitAtLine \/ SecondPass \/ Relex

\* After the one-pass run the host folds the whole document, and after that folds again the
\* lines from a line start on.
FoldAll ==
    /\ phase = "full" /\ pc = "done" /\ lang # "fsharp"
    /\ lx' = FoldPass(lx, BlankLevels)
    /\ phase' = "fold" /\ pc' = "start" /\ split' = 0
    /\ UNCHANGED <<lang, doc, full, editor>>

Refold ==
    /\ phase = "fold" /\ pc = "done"
    /\ \E b \in LineStarts \ {0} : split' = b
    /\ full' = lx
    /\ phase' = "refold" /\ pc' = "start"
    /\ UNCHANGED <<lang, doc, lx, editor>>

HostFold == FoldAll \/ Refold

FoldPowerShellDoc == FoldPowerShellDocBegin \/ FoldPowerShellDocStep \/ FoldPowerShellDocReturn
FoldAsyDoc == FoldAsyDocBegin \/ FoldAsyDocStep \/ FoldAsyDocReturn
FoldCMakeDoc == FoldCMakeDocBegin \/ FoldCMakeDocStep \/ FoldCMakeDocReturn
FoldDartDoc == FoldDartDocBegin \/ FoldDartDocStep \/ FoldDartDocReturn
FoldVHDLDoc == FoldVHDLDocBegin \/ FoldVHDLDocStep \/ FoldVHDLDocReturn

ColouriseAsyDoc == ColouriseAsyDocBegin \/ ColouriseAsyDocStep \/ ColouriseAsyDocComplete
ColouriseDartDoc == ColouriseDartDocBegin \/ ColouriseDartDocStep \/ ColouriseDartDocComplete
ColouriseFSharpDoc == ColouriseFSharpDocBegin \/ ColouriseFSharpDocStep \/ ColouriseFSharpDocComplete
ColouriseCMakeDoc == ColouriseCMakeDocBegin \/ ColouriseCMakeDocStep \/ ColouriseCMakeDocComplete
ColourisePowerShellDoc ==
    ColourisePowerShellDocBegin \/ ColourisePowerShellDocStep \/ ColourisePowerShellDocComplete
ColouriseVHDLDoc == ColouriseVHDLDocBegin \/ ColouriseVHDLDocStep \/ ColouriseVHDLDocComplete

NextAsy == ColouriseAsyDoc \/ Host
SpecAsy == InitAsy /\ [][NextAsy]_vars

NextDart == ColouriseDartDoc \/ Host
SpecDart == InitDart /\ [][NextDart]_vars

NextFSharp == ColouriseFSharpDoc \/ Host
SpecFSharp == InitFSharp /\ [][NextFSharp]_vars

NextCMake == ColouriseCMakeDoc \/ Host
SpecCMake == InitCMake /\ [][NextCMake]_vars

\* Every lexer of the repository on its own documents.
InitLexers == InitPS \/ InitVHDL \/ InitAsy \/ InitCMake \/ InitDart \/ InitFSharp
NextLexers ==
    \/ ColourisePowerShellDoc \/ ColouriseVHDLDoc \/ ColouriseAsyDoc
    \/ ColouriseCMakeDoc \/ ColouriseDartDoc \/ ColouriseFSharpDoc
    \/ Host
    \/ FoldPowerShellDoc \/ FoldVHDLDoc \/ FoldAsyDoc \/ FoldCMakeDoc \/ FoldDartDoc
    \/ HostFold
SpecLexers == InitLexers /\ [][NextLexers]_vars

\* Every Colourizer on documents that are string literals: a string left open at the end of
\* its line and closed on the next one.
UnterminatedString == <<"\"","a","b","c",LF,"d","e","f","\"">>
Languages == {"powershell", "vhdl", "asy", "cmake", "dart", "fsharp"}

\* A backslash that is the last character of its line, inside a string opened with quote q.
BackslashAtLineEnd(q) == <<q, "a", "\\", LF, "b", q>>

\* A string that holds one escape: the backslash, the characters `head` that select the kind of
\* escape, k times the character d, the characters `tail`, and the closing quote.
MaxEscapeRun == 9
EscapeHeads == {<<"n">>, <<"x">>, <<"X">>, <<"u">>, <<"U">>, <<"1">>, <<"8">>}
EscapeDigits == {"1", "8", "a", "g"}
EscapeDoc(q, head, d, k, tail) == <<q, "\\">> \o head \o [i \in 1..k |-> d] \o tail \o <<q>>
EscapeDocs(q) ==
    {EscapeDoc(q, head, d, k, <<>>) : head \in EscapeHeads, d \in EscapeDigits, k \in 0..MaxEscapeRun}
        \cup {EscapeDoc(q, <<"u", "{">>, d, k, <<"}">>) : d \in EscapeDigits, k \in 0..MaxEscapeRun}

\* The languages whose Colourizer has an EscapeSequence, and the quote of the string each is given.
EscapeLanguages == {"asy", "dart", "fsharp"}
EscapeQuote(l) == IF l = "asy" THEN "'" ELSE "\""

\* Interpolated strings whose embedded expression holds brackets of its own: `"${{a}}"` in
\* Dart, `$"{ {a} }"` and `$"{(a)}"` in F#, and in F# `$"{(})}"`, a `}` inside parentheses.
NestedInterpolations(l) ==
    CASE l = "dart" -> {<<"\"", "$", "{", "{", "a", "}", "}", "\"">>}
      [] l = "fsharp" -> {<<"$", "\"", "{", " ", "{", "a", "}", " ", "}", "\"">>,
                          <<"$", "\"", "{", "(", "a", ")", "}", "\"">>}
      [] OTHER -> {}
BraceInParentheses == <<"$", "\"", "{", "(", "}", ")", "}", "\"">>

\* Dart: an interpolation that is k braces deep at the end of its first line and closed on
\* the next one, and one that ends its first line inside a block comment, a brace deep.
MaxNestedDepth == 6
DeepInterpolation(k) ==
    <<"\"", "$">> \o [i \in 1..k |-> "{"] \o <<LF>> \o [i \in 1..k |-> "}"] \o <<"\"">>
CommentInInterpolation == <<"\"", "$", "{", "{", "/", "*", LF, "*", "/", "}", "}", "\"">>
DeepInterpolations ==
    {DeepInterpolation(k) : k \in 1..MaxNestedDepth} \cup {CommentInInterpolation}

\* Characters that start no construct where they stand: closers with nothing open and a
\* backslash outside a string, alone, in pairs and next to a name; comment closers with no
\* comment open; and a closing brace too many after an interpolation.
StrayChars == {"}", ")", "]", "\\"}
StrayDocs(l) ==
    {<<c>> : c \in StrayChars} \cup {<<c, d>> : c, d \in StrayChars}
        \cup {<<c, "a">> : c \in StrayChars} \cup {<<"a", c>> : c \in StrayChars}
        \cup {<<"*", "/">>, <<"*", ")">>, <<"}", LF, "}">>}
        \cup (CASE l = "dart" -> {<<"\"","$","{","a","}","}","\"">>, <<"\"","$","{","}","}">>}
                 [] l = "fsharp" -> {<<"$","\"","{","a","}","}","\"">>, <<"$","\"","}","\"">>, <<"$","\"","{",")","}","\"">>}
                 [] l = "cmake" -> {<<"$","{","a","}","}">>, <<"$","<","a",">",">">>}
                 [] OTHER -> {})

\* F# strings with a percent sign: complete specifiers with flags, width and precision, a
\* doubled percent, a percent no specifier follows, `5% x`, a percent-encoded URL, and the
\* percent run of a string opened with two dollar signs.
Quoted(text) == <<"\"">> \o text \o <<"\"">>
TripleDollar(text) == <<"$","$","\"","\"","\"">> \o text \o <<"\"","\"","\"">>
PercentDocs ==
    {Quoted(t) : t \in {<<"%","d">>, <<"%","5",".","2","f">>, <<"%","-","*","d">>, <<"%","0","5","x","!">>,
                        <<"%",".","*","s">>, <<"%","z">>, <<"%">>, <<"%","5",".">>, <<"%","%">>,
                        <<"5","%"," ","x">>, <<"a",":","/","/","b","%","2","F">>,
                        <<"a","%","d","%","z","%","s">>}}
        \cup {<<"$">> \o Quoted(<<"%","d","{","a","}">>), <<"@">> \o Quoted(<<"%","d">>),
              <<"\"","\"","\"","%","d","\"","\"","\"">>}
        \cup {TripleDollar(t) : t \in {<<"%","%","d">>, <<"%","%","z">>, <<"%","d">>, <<"%","%","%","d">>,
                                       <<"%","%","5","d">>, <<"%","%">>}}

\* Strings whose inner construct ends on a character that the string itself has yet to look
\* at: `"$a "` in Dart, `$"{a:x}"` and `$"{a:}"` in F#, and in CMake `"\na"`, `"${a}b"`,
\* `"$a "` and `"@a@b"`.
ContinueDocs(l) ==
    CASE l = "dart" -> {<<"\"", "$", "a", " ", "\"">>}
      [] l = "fsharp" -> {<<"$", "\"", "{", "a", ":", "x", "}", "\"">>,
                          <<"$", "\"", "{", "a", ":", "}", "\"">>}
      [] l = "cmake" -> {<<"\"", "\\", "n", "a", "\"">>, <<"\"", "$", "{", "a", "}", "b", "\"">>,
                         <<"\"", "$", "a", " ", "\"">>, <<"\"", "@", "a", "@", "b", "\"">>}
      [] OTHER -> {}

\* CMake bracket arguments and bracket comments: empty ones, ones that hold a closer with
\* another number of `=`, and ones that span a line end.
BracketDocs ==
    {<<"x","(","[","[","]","]",")">>, <<"x","(","[","[","a","]","]",")">>,
     <<"x","(","[","=","[","]","=","]",")">>, <<"x","(","[","[","]","]","]",")">>,
     <<"x","(","[","=","[","a","]","]","b","]","=","]",")">>,
     <<"#","[","=","[","]","]","]","=","]","a">>, <<"#","[","[","a","]","=","]","]","a">>,
     <<"x","(","[","=","[","\n","a","]","]","\n","]","=","]",")">>,
     <<"#","[","=","=","[","\n","]","=","]","\n","]","=","=","]">>}

StringDocs(l) ==
    {UnterminatedString} \cup NestedInterpolations(l) \cup (IF l = "fsharp" THEN {BraceInParentheses} ELSE {})
        \cup StrayDocs(l) \cup (IF l = "fsharp" THEN PercentDocs ELSE {}) \cup ContinueDocs(l)
        \cup (IF l = "cmake" THEN BracketDocs ELSE {})
        \cup (IF l = "dart" THEN DeepInterpolations ELSE {})
        \cup (IF l \in EscapeLanguages \cup {"cmake"} THEN {BackslashAtLineEnd("\""), BackslashAtLineEnd("'")} ELSE {})
        \cup (IF l \in EscapeLanguages
              THEN EscapeDocs(EscapeQuote(l))
                       \cup {<<"'", "\\", "n", "'">>, <<"\"", "\\", "\"", "\"">>,
                             <<EscapeQuote(l), "\\", "1", "\\", "n", EscapeQuote(l)>>}
              ELSE {})

InitStrings ==
    /\ lang \in Languages
    /\ doc \in StringDocs(lang)
    /\ phase = "full" /\ pc = "start" /\ split = 0
    /\ lx = IdlePass
    /\ full = IdlePass
    /\ EditorIdle
NextStrings ==
    \/ ColourisePowerShellDoc \/ ColouriseVHDLDoc \/ ColouriseAsyDoc
    \/ ColouriseCMakeDoc \/ ColouriseDartDoc \/ ColouriseFSharpDoc
    \/ Host
SpecStrings == InitStrings /\ [][NextStrings]_vars

\* The Colourizers that classify identifiers, on identifiers.  Asymptote: a word of the lists or of none, after nothing, a
\* keyword that sets the pending keyword type, or a name, and before what the structural
\* heuristic looks at; and two words on two lines.
WordPrefixes == {<<>>, <<"n","e","w"," ">>, <<"r","e","t","u","r","n"," ">>, <<"a"," ">>}
Words == {<<"i","f">>, <<"i","n","t">>, <<"p","a","t","h">>, <<"p","i">>, <<"x">>}
WordSuffixes == {<<>>, <<"(">>, <<" ","y">>, <<"[","]">>, <<".","z">>, <<";">>}
WordDocs ==
    {p \o w \o x : p \in WordPrefixes, w \in Words, x \in WordSuffixes}
        \cup {<<"n","e","w">> \o <<LF>> \o w : w \in Words}
\* Asymptote: a call or a definition after `]`, after a name on the line before, and after a
\* name and a comment.
AsyCallDocs ==
    {<<"]"," ","x","(">>, <<"a",LF,"f","(",")">>, <<"a"," ","/","*","c","*","/"," ","f","(">>,
     <<"n","e","w"," ","i","f",LF,"y">>}

\* A token of n characters that starts with the word w.
LongToken(w, n) == w \o [i \in 1..(n - Len(w)) |-> "x"]
MaxTokenLength == 21
LongTokens(w, size) == {LongToken(w, n) \o <<";">> : n \in (size - 2)..MaxTokenLength}

\* Dart: the same, with the keywords and the contexts of ColouriseDartDoc, and the tokens that
\* fill the buffer of MaxKeywordSize characters and overflow it.
DartWordPrefixes ==
    {<<>>, <<"c","l","a","s","s"," ">>, <<"r","e","t","u","r","n"," ">>, <<"a"," ">>, <<"]"," ">>,
     <<"c","l","a","s","s"," ","i","f"," ">>, <<"e","n","u","m"," ","l","e","t"," ">>}
DartWords == {<<"x">>, <<"i","f">>, <<"i","n","t">>, <<"L","i","s","t">>}
DartWordSuffixes == {<<>>, <<"(">>, <<" ","(">>, <<" ","y">>, <<".","z">>, <<":">>, <<"?","(">>}
DartWordDocs ==
    {p \o w \o x : p \in DartWordPrefixes, w \in DartWords, x \in DartWordSuffixes}
        \cup {<<"c","l","a","s","s",LF,"x"," ","y">>, <<"a",LF,"f","(",")">>, <<"f",LF,"(">>,
              <<"c","l","a","s","s"," ","i","f",LF,"x"," ","y">>}
        \cup LongTokens(<<"r","e","t","u","r","n">>, DartMaxKeywordSize)
        \cup LongTokens(<<"i","n","t">>, DartMaxKeywordSize)

\* F#: keywords and types, and the tokens that fill the buffer and overflow it.
FSharpWordDocs ==
    {<<"l","e","t"," ","x">>, <<"i","n","t",LF,"l","e","t">>}
        \cup LongTokens(<<"l","e","t">>, FSharpMaxKeywordSize)
        \cup LongTokens(<<"i","n","t">>, FSharpMaxKeywordSize)

WordLanguages == {"asy", "dart", "fsharp"}
WordDocsOf(l) ==
    CASE l = "asy" -> WordDocs \cup AsyCallDocs [] l = "dart" -> DartWordDocs [] OTHER -> FSharpWordDocs
InitWords ==
    /\ lang \in WordLanguages
    /\ doc \in WordDocsOf(lang)
    /\ phase = "full" /\ pc = "start" /\ split = 0
    /\ lx = IdlePass
    /\ full = IdlePass
    /\ EditorIdle
NextWords == ColouriseAsyDoc \/ ColouriseDartDoc \/ ColouriseFSharpDoc \/ Host
SpecWords == InitWords /\ [][NextWords]_vars

\* Every Colourizer and every Folder on documents made of whole lines: an optional line that
\* opens a block or a plain line of code, then a run of up to MaxRun lines that are comment
\* lines, import lines, empty lines or lines of white space, then an optional line that closes
\* the block or a plain line of code.
MaxRun == 3
BlockLine(l, kind) ==
    CASE kind = "comment" ->
             (CASE l \in {"asy", "dart", "fsharp"} -> <<"/","/","c">>
                [] l = "vhdl" -> <<"-","-","c">>
                [] OTHER -> <<"#","c">>)
      [] kind = "import" -> <<"i","m","p","o","r","t"," ","m",";">>
      [] kind = "empty" -> <<>>
      [] kind = "space" -> <<" ">>
      [] kind = "code" ->
             (CASE l = "cmake" -> <<"s","e","t","(","V",")">>
                [] l = "powershell" -> <<"$","x","=","l","s">>
                [] l = "fsharp" -> <<" ","l","e","t"," ","x">>
                [] OTHER -> <<"a",";">>)
      [] kind = "commentopen" ->
             (CASE l = "cmake" -> <<"#","[","[">>
                [] l = "powershell" -> <<"<","#">>
                [] OTHER -> <<"/","*">>)
      [] kind = "commentclose" ->
             (CASE l = "cmake" -> <<"]","]">>
                [] l = "powershell" -> <<"#",">">>
                [] OTHER -> <<"*","/">>)
      [] kind = "stringopen" ->
             (CASE l = "cmake" -> <<"x","(","[","[">>
                [] l = "dart" -> <<"\"","\"","\"">>
                [] OTHER -> <<"\"">>)
      [] kind = "open" ->
             (CASE l = "cmake" -> <<"i","f","(","x",")">>
                [] l = "vhdl" -> <<"p","r","o","c","e","s","s">>
                [] OTHER -> <<"{">>)
      [] OTHER ->
             (CASE l = "cmake" -> <<"e","n","d","i","f","(",")">>
                [] l = "vhdl" -> <<"e","n","d",";">>
                [] OTHER -> <<"}">>)
MarkerKinds(l) ==
    IF l \in {"asy", "dart"} THEN {"comment", "import", "empty", "space"} ELSE {"comment", "empty", "space"}
BlockRuns(l) ==
    {[i \in 1..k |-> kind] : kind \in MarkerKinds(l), k \in 0..MaxRun}
        \cup {<<"comment", "empty", "comment">>, <<"comment", "space">>}
        \cup (IF "import" \in MarkerKinds(l)
              THEN {<<"comment", "import">>, <<"import", "comment", "comment">>, <<"import", "empty", "import">>}
              ELSE {})
BlockHeads == {<<>>, <<"open">>, <<"code">>}
BlockTails == {<<>>, <<"close">>, <<"code">>}
\* Lines of white space and of nothing inside a block comment, closed and left open, and
\* inside a string that runs over lines.
BlockCommentKinds(l) ==
    IF l = "fsharp" THEN {}
    ELSE {<<"commentopen", "space">>, <<"commentopen", "empty", "space">>,
          <<"commentopen", "space", "commentclose">>, <<"commentopen", "empty", "commentclose">>}
         \cup (IF l \in {"asy", "cmake", "dart"} THEN {<<"stringopen", "space">>} ELSE {})
BlockKinds(l) == {h \o r \o t : h \in BlockHeads, r \in BlockRuns(l), t \in BlockTails} \ {<<>>}
BlockDoc(l, kinds) == JoinLines([i \in 1..Len(kinds) |-> BlockLine(l, kinds[i])])
BlockDocs(l) == {BlockDoc(l, kinds) : kinds \in BlockKinds(l)}
InitBlocks ==
    /\ lang \in Languages
    /\ doc \in BlockDocs(lang)
    /\ phase = "full" /\ pc = "start" /\ split = 0
    /\ lx = IdlePass
    /\ full = IdlePass
    /\ EditorIdle
SpecBlocks == InitBlocks /\ [][NextLexers]_vars

\* The lexers that have a Folder, on the same documents and on block comments that hold lines
\* of white space and of nothing.
FoldLanguages == Languages \ {"fsharp"}
\* VHDL units with their `begin`: after the unit's own line, after a process, after a comment
\* line, and inside another unit.
VHDLArchitectureLine == <<"a","r","c","h","i","t","e","c","t","u","r","e"," ","a"," ","i","s">>
VHDLFunctionLine == <<"f","u","n","c","t","i","o","n"," ","f"," ","r","e","t","u","r","n"," ","b","i","t"," ","i","s">>
VHDLBeginDocs ==
    {JoinLines(lines) : lines \in
        {<<VHDLArchitectureLine, <<"b","e","g","i","n">>, <<"e","n","d",";">>>>,
         <<VHDLArchitectureLine, <<"p","r","o","c","e","s","s">>, <<"b","e","g","i","n">>>>,
         <<VHDLFunctionLine, <<"b","e","g","i","n">>, <<"e","n","d",";">>>>,
         <<VHDLArchitectureLine, <<"-","-"," ","c">>, <<"b","e","g","i","n">>>>,
         <<VHDLArchitectureLine, VHDLArchitectureLine, <<"b","e","g","i","n">>>>,
         <<<<"b","e","g","i","n">>, <<"e","n","d",";">>>>}}
\* Block comments, bracket arguments and strings that are closed: the shortest ones, one that
\* spans a line end, and two with nothing between them.
BalancedLines(l) ==
    CASE l = "powershell" -> {<<"<","#",">">>, <<"<","#",">","<","#",">">>, <<"<","#","#",">","a">>}
      [] l = "asy" -> {<<"/","*","*","/">>, <<"/","*","*","/","/","*","*","/">>, <<"\"","\"">>,
                       <<"\"","\"","'","'">>, <<"\"","a","\"",";">>}
      [] l = "cmake" -> {<<"#","[","[","]","]">>, <<"#","[","[","]","]","#","[","[","]","]">>,
                         <<"x","(","[","[","]","]",")">>, <<"x","(","[","[","]","]","[","[","]","]",")">>,
                         <<"#","[","=","[","]","=","]">>}
      [] OTHER -> {}
BalancedDocs(l) ==
    BalancedLines(l)
        \cup (IF l \in {"powershell", "asy", "cmake"}
              THEN {BlockDoc(l, <<"commentopen", "commentclose">>),
                    JoinLines(<<BlockLine(l, "commentopen"),
                                BlockLine(l, "commentclose") \o BlockLine(l, "commentopen"),
                                BlockLine(l, "commentclose")>>)}
              ELSE {})
FoldDocs(l) ==
    BlockDocs(l) \cup {BlockDoc(l, kinds) : kinds \in BlockCommentKinds(l)}
        \cup (IF l = "vhdl" THEN VHDLBeginDocs ELSE {}) \cup BalancedDocs(l)
InitFolds ==
    /\ lang \in FoldLanguages
    /\ doc \in FoldDocs(lang)
    /\ phase = "full" /\ pc = "start" /\ split = 0
    /\ lx = IdlePass
    /\ full = IdlePass
    /\ EditorIdle
NextFolds ==
    \/ ColourisePowerShellDoc \/ ColouriseVHDLDoc \/ ColouriseAsyDoc
    \/ ColouriseCMakeDoc \/ ColouriseDartDoc
    \/ Host
    \/ FoldPowerShellDoc \/ FoldVHDLDoc \/ FoldAsyDoc \/ FoldCMakeDoc \/ FoldDartDoc
    \/ HostFold
SpecFolds == InitFolds /\ [][NextFolds]_vars

\* The two-pass run has ended.
Resumed == phase = "second" /\ pc = "done"
SameAsOnePass == lx.styles = full.styles /\ lx.ls = full.ls

\* The second run over unchanged lines has ended.
Relexed == phase = "relex" /\ pc = "done"

\* ============================================================ the properties

\* C1 (Dart resumability): lexing [0,N) in one pass and lexing [0,b) then [b,N), b a line
\* start, with the initial style and the line states the first pass left, gives the same
\* style of every byte and the same line state of every line.
C1_DartResumable == (lang = "dart" /\ Resumed) => SameAsOnePass

\* C2 (CMake resumability): the same equality for ColouriseCMakeDoc, variable references,
\* generator expressions, strings and bracket arguments that span the split included.
C2_CMakeResumable == (lang = "cmake" /\ Resumed) => SameAsOnePass

\* C3 (Asymptote resumability): the same equality for ColouriseAsyDoc, the class given to
\* the first identifier after the split included.
C3_AsyResumable == (lang = "asy" /\ Resumed) => SameAsOnePass

\* C4 (F# comment depth in the line state): whenever a line ends inside a block comment,
\* the word written for the line gives back, at (word >> 12) & 0xf, the depth the comment
\* has there, and its interpolator-count and indent-count fields hold those counters unaltered.
C4_FSharpCommentDepth ==
    (lang = "fsharp" /\ Lexing /\ pc = "loop" /\ More(lx)) =>
        LET e == FSharpBeforeLineEnd(lx)
            w == FSharpLineState(e)
        IN (~e.cont /\ AtLineEnd(e) /\ e.state = "COMMENT") =>
               /\ BitMask(ShiftRight(w, 12), 4) = e.commentLevel
               /\ BitMask(ShiftRight(w, 8), 4) = e.stringInterpolatorCount
               /\ ShiftRight(w, 16) = e.indentCount

\* C5 (idempotence of re-lex): running a Colourizer again over unchanged lines, from a line
\* start on, with the style and the line state recorded there by the first run, leaves every
\* style and every line state word as the first run wrote it.
C5_RelexIdempotent == Relexed => (lx.styles = full.styles /\ lx.ls = full.ls)

\* The runs committed so far: none empty, each starting where the one before ended, the first
\* at the start of the range and the last ending at the start of the token being scanned,
\* which is never after the cursor.
RunsContiguous(s) ==
    /\ \A i \in 1..Len(s.runs) : s.runs[i][1] < s.runs[i][2]
    /\ \A i \in 1..(Len(s.runs) - 1) : s.runs[i][2] = s.runs[i + 1][1]
    /\ Min(s.startSeg, Len(doc)) = (IF Len(s.runs) = 0 THEN s.startPos ELSE s.runs[Len(s.runs)][2])
    /\ (Len(s.runs) > 0 => s.runs[1][1] = s.startPos)
    /\ s.startSeg <= s.pos
    /\ \A i \in 1..Len(s.runs) :
          \A p \in (s.runs[i][1] + 1)..s.runs[i][2] : p \in DOMAIN s.styles /\ s.styles[p] = s.runs[i][3]

\* C6 (run contiguity): in every pass of every Colourizer the committed runs have strictly
\* increasing starts, each covers exactly the bytes up to the next run's start, and when the
\* pass has returned they cover its range [startPos, startPos + length) with no gap or overlap.
C6_RunContiguity ==
    (Lexing /\ pc \in {"loop", "done"}) =>
        /\ RunsContiguous(lx)
        /\ pc = "done" => Min(lx.startSeg, Len(doc)) = PassStart + PassLength

\* C6 witness: an F# pass has returned after committing a format specifier inside a string,
\* a token the code commits with Advance and `continue`.
C6_Witness ==
    /\ lang = "fsharp" /\ phase = "second" /\ pc = "done" /\ Len(lx.runs) >= 4
    /\ \E i \in 1..Len(lx.runs) : lx.runs[i][3] = "FORMAT_SPECIFIER"

\* The fields of a level word: the line's own level below the header flag, the flag, the two
\* bits between the flag and the next level, and the next level from bit 16 on.
FoldLevelOf(w) == w % SC_FOLDLEVELHEADERFLAG
FoldHeaderOf(w) == (w \div SC_FOLDLEVELHEADERFLAG) % 2 = 1
FoldNextOf(w) == ShiftRight(w, 16)
FoldWordFormed(w) ==
    /\ (w \div (2 * SC_FOLDLEVELHEADERFLAG)) % 4 = 0
    /\ FoldHeaderOf(w) <=> FoldLevelOf(w) < FoldNextOf(w)

\* The lines that hold a byte of the range of the pass, and the next level of the line before
\* line n (the base level before the first line).
RangeLines(s) == {GetLine(p) : p \in s.startPos..(s.endPos - 1)}
NextLevelBefore(s, n) == IF n = 0 THEN SC_FOLDLEVELBASE ELSE FoldNextOf(s.levels[n])

\* A line of the range has been committed once: SetLevel was called once for it in the first
\* folding of the document, and at most once, when the word changes, in a later one.
CommittedOnce(s, n) ==
    /\ n \in s.seen
    /\ IF phase = "fold" THEN s.setLevel[n + 1] = 1 ELSE s.setLevel[n + 1] <= 1

\* C7 (fold output format): when a Folder has returned, every line of its range has been
\* written exactly once, no other line has been written, and the word of each line of the
\* range is currentLevel | (nextLevel << 16) with the header flag set if and only if
\* currentLevel < nextLevel; currentLevel is the level carried from the line before (in VHDL
\* at most that level).
C7_FoldFormat ==
    (Folding /\ pc = "done") =>
        \A n \in 0..lineDocEnd :
            IF n \in RangeLines(lx)
            THEN /\ CommittedOnce(lx, n)
                 /\ FoldWordFormed(lx.levels[n + 1])
                 /\ IF lang = "vhdl"
                    THEN FoldLevelOf(lx.levels[n + 1]) <= NextLevelBefore(lx, n)
                    ELSE FoldLevelOf(lx.levels[n + 1]) = NextLevelBefore(lx, n)
            ELSE lx.setLevel[n + 1] = 0

LetLine == <<"l","e","t"," ","x"," ","="," ","1",";">>
IsLineCommentThenLet ==
    /\ Len(doc) > Len(LetLine) + 2
    /\ SubSeq(doc, 1, 2) = <<"/", "/">>
    /\ SubSeq(doc, Len(doc) - Len(LetLine), Len(doc)) = <<LF>> \o LetLine
    /\ lineDocEnd = 1

\* The styles of the tokens of a line: the runs from the line's start on that are not blank space.
TokenStyles(s, start) ==
    LET keep == {i \in 1..Len(s.runs) : s.runs[i][1] >= start /\ s.runs[i][3] # "DEFAULT"}
        nth(k) == CHOOSE i \in keep : Cardinality({j \in keep : j < i}) = k - 1
    IN [k \in 1..Cardinality(keep) |-> s.runs[nth(k)][3]]

\* C9 (line-comment scenario): for `// ...` followed by the line `let x = 1;`, every byte of
\* line 0 has the line-comment style and line 0's state word has the line-comment flag; the
\* comment ends at the start of line 1, whose tokens are keyword, identifier, operator, number,
\* operator.
C9_LineCommentScenario ==
    (lang \in {"fsharp", "dart"} /\ phase = "full" /\ pc = "done" /\ IsLineCommentThenLet) =>
        /\ \A p \in 1..LineStart(1) : lx.styles[p] = "COMMENTLINE"
        /\ lx.runs[1] = <<0, LineStart(1), "COMMENTLINE">>
        /\ BitAnd(lx.ls[1], IF lang = "fsharp" THEN PyLineStateMaskCommentLine ELSE 1) # 0
        /\ TokenStyles(lx, LineStart(1)) =
              <<IF lang = "fsharp" THEN "KEYWORD" ELSE "WORD", "IDENTIFIER", "OPERATOR", "NUMBER", "OPERATOR">>

\* C9 witness: the F# pass over the scenario's document has returned.
C9_Witness == lang = "fsharp" /\ phase = "full" /\ pc = "done" /\ IsLineCommentThenLet

\* The scenario's document, and the depth the comment has once the cursor has passed p bytes.
NestedComment == <<"/","*"," ","a"," ","/","*"," ","b"," ","*","/"," ","c"," ","*","/">>
NestedDepthAt(p) == IF p < 2 THEN 0 ELSE IF p < 7 THEN 1 ELSE IF p < 12 THEN 2 ELSE IF p < 17 THEN 1 ELSE 0

\* C10 (nested block comment, Dart): over `/* a /* b */ c */` the depth counter is 1 after the
\* outer opener, 2 after the inner opener, 1 after the inner closer and 0, with the state
\* DEFAULT, only after the outer closer; the whole text is one block-comment run.
C10_NestedComment ==
    (lang = "dart" /\ phase = "full" /\ doc = NestedComment /\ pc \in {"loop", "done"}) =>
        /\ lx.commentLevel = NestedDepthAt(lx.pos)
        /\ (lx.pos >= 2 /\ lx.pos < 17) => (lx.state = "COMMENTBLOCK" /\ lx.runs = <<>>)
        /\ lx.pos >= 17 => lx.state = "DEFAULT"
        /\ pc = "done" => lx.runs = <<<<0, 17, "COMMENTBLOCK">>>>

\* C10 witness: the cursor is between the inner opener and the inner closer, at depth 2.
C10_Witness ==
    lang = "dart" /\ phase = "full" /\ doc = NestedComment /\ pc = "loop" /\ lx.commentLevel = 2

\* The scenario's document, `"sum=${a+b}"`, and the depth of the nested-state stack once the
\* cursor has passed p bytes: one entry from behind `${` up to the matching `}`.
Interpolation == <<"\"","s","u","m","=","$","{","a","+","b","}","\"">>
InterpolationDepthAt(p) == IF p >= 7 /\ p <= 10 THEN 1 ELSE 0
InterpolationLexed == lang = "dart" /\ phase = "full" /\ doc = Interpolation /\ pc \in {"loop", "done"}

\* The stack over the scenario: empty before the string, one entry, the string's state, between
\* `${` and the matching `}`, empty after it.
InterpolationStack ==
    /\ Len(lx.nestedState) = InterpolationDepthAt(lx.pos)
    /\ Len(lx.nestedState) = 1 => lx.nestedState = <<"STRING_DQ">>

\* C11 as stated (interpolation scenario, Dart): `"sum=` is a string run, `${` and `}` are the
\* interpolation delimiters, `a`, `+`, `b` are styled as ordinary code is (identifier,
\* operator, identifier), the string state resumes for the closing quote, and the nested-state
\* stack is empty before the string, holds one entry between `${` and `}` and is empty after.
C11_InterpolationScenario ==
    InterpolationLexed =>
        /\ InterpolationStack
        /\ pc = "done" =>
              lx.runs = <<<<0, 5, "STRING_DQ">>, <<5, 7, "OPERATOR2">>, <<7, 8, "IDENTIFIER">>,
                          <<8, 9, "OPERATOR">>, <<9, 10, "IDENTIFIER">>, <<10, 11, "OPERATOR2">>,
                          <<11, 12, "STRING_DQ">>>>

\* C11 amended: the same runs and the same stack, but the `+` of the embedded expression has
\* the style of the interpolation delimiters (OPERATOR2), not the operator style of ordinary code.
C11_InterpolationAmended ==
    InterpolationLexed =>
        /\ InterpolationStack
        /\ pc = "done" =>
              lx.runs = <<<<0, 5, "STRING_DQ">>, <<5, 7, "OPERATOR2">>, <<7, 8, "IDENTIFIER">>,
                          <<8, 9, "OPERATOR2">>, <<9, 10, "IDENTIFIER">>, <<10, 11, "OPERATOR2">>,
                          <<11, 12, "STRING_DQ">>>>

\* C11 witness: the pass over the scenario's document has returned, the string resumed and closed.
C11_Witness ==
    /\ lang = "dart" /\ phase = "full" /\ doc = Interpolation /\ pc = "done"
    /\ lx.nestedState = <<>> /\ lx.styles[12] = "STRING_DQ"

\* The style a Colourizer gives the text of a double-quoted string.
StringStyleOf(l) == IF l \in {"powershell", "dart", "asy"} THEN "STRING_DQ" ELSE "STRING"

\* The scenario for the Colourizer of language l: the slice `"abc` up to its line end, then the
\* slice `def"`.  When the first slice has been lexed all of it has the string style, which is
\* the style recorded for the next slice to start in; when the next slice has been lexed with it,
\* `def` and the quote have the string style and the string has ended behind the quote.
UnterminatedStringCarried(l) ==
    (lang = l /\ doc = UnterminatedString /\ split = 5 /\ pc = "done") =>
        /\ phase = "first" => \A p \in 1..5 : lx.styles[p] = StringStyleOf(l)
        /\ phase = "second" =>
              /\ PassInitStyle = StringStyleOf(l)
              /\ \A p \in 6..9 : lx.styles[p] = StringStyleOf(l)
              /\ lx.state = "DEFAULT"

StringStatesOf(l) ==
    CASE l = "asy" -> {"STRING_SQ", "STRING_DQ"}
      [] l = "dart" -> DartStringStates
      [] l = "fsharp" -> FSharpStringStates
      [] l = "cmake" -> {"STRING"}
      [] OTHER -> {}

\* The pass after one more iteration of the Colourizer's loop.
LoopBodyOf(s) ==
    CASE lang = "asy" -> AsyLoopBody(s)
      [] lang = "dart" -> DartLoopBody(s)
      [] lang = "fsharp" -> FSharpLoopBody(s)
      [] lang = "cmake" -> CMakeLoopBody(s)
      [] lang = "powershell" -> PSLoopBody(s)
      [] OTHER -> VHDLLoopBody(s)

\* The cursor is inside a string, on a backslash that is followed by a line end.
AtBackslashBeforeLineEnd ==
    /\ Lexing /\ pc = "loop" /\ More(lx)
    /\ lx.state \in StringStatesOf(lang)
    /\ Ch(lx) = "\\" /\ IsEOLChar(ChNext(lx))

\* C13 (no escape before a line end): when the character after a backslash inside a string is
\* an end-of-line character, resetEscapeState of Asymptote and Dart returns false and leaves
\* the EscapeSequence as it was, and the iteration of every Colourizer that knows escapes
\* (Asymptote, Dart, F#, CMake) ends in the string state it was in and not in the escape
\* state; with an EscapeSequence (Asymptote, Dart, F#) it ends one character on, on the line
\* end, and the EscapeSequence is unchanged.
C13_NoEscapeAtLineEnd ==
    AtBackslashBeforeLineEnd =>
        /\ lang = "asy" =>
              LET r == AsyResetEscapeState(lx, lx.state, ChNext(lx)) IN ~r.ok /\ r.s.escSeq = lx.escSeq
        /\ lang = "dart" =>
              LET r == DartResetEscapeState(lx, lx.state, ChNext(lx)) IN ~r.ok /\ r.s.escSeq = lx.escSeq
        /\ LET n == LoopBodyOf(lx)
           IN /\ n.state = lx.state
              /\ lang \in EscapeLanguages => (n.escSeq = lx.escSeq /\ n.pos = lx.pos + 1)

\* C13 witness: ColouriseFSharpDoc has passed a backslash at the end of a line and is on the
\* line end, still in the string.
C13_Witness ==
    /\ lang = "fsharp" /\ doc = BackslashAtLineEnd("\"") /\ phase = "full" /\ pc = "loop"
    /\ lx.pos = 3 /\ ChPrev(lx) = "\\" /\ IsEOLChar(Ch(lx)) /\ lx.state = "STRING"

\* The runs a pass has committed in the escape style, and for such a run the number of
\* characters it holds behind the backslash that starts it.
EscapeRuns(s) == {i \in 1..Len(s.runs) : s.runs[i][3] = "ESCAPECHAR" /\ CharAt(s.runs[i][1]) = "\\"}
EscapeLength(s, i) == s.runs[i][2] - s.runs[i][1] - 1

\* The longest escape of language l that starts with the character c behind the backslash: the
\* letter and 2 hex digits for x, the letter and 4 for u, the letter and 8 for U in F#, 3 digits
\* for a digit run (octal in Asymptote, decimal in F#), 1 character otherwise.
EscapeMax(l, c) ==
    IF c = "x" \/ (c = "X" /\ l = "asy") THEN 1 + 2
    ELSE IF c = "u" /\ l # "asy" THEN 1 + 4
    ELSE IF c = "U" /\ l = "fsharp" THEN 1 + 8
    ELSE IF (l = "asy" /\ IsOctalDigit(c)) \/ (l = "fsharp" /\ IsADigit(c)) THEN 3
    ELSE 1

\* The same where Dart's escape of a code point in braces is known: `u{`, 6 hex digits and `}`.
EscapeMaxBraced(l, c, cNext) ==
    IF l = "dart" /\ c = "u" /\ cNext = "{" THEN 2 + 6 + 1 ELSE EscapeMax(l, c)

\* C14 as stated (escape length): the characters behind the backslash that are styled as part
\* of the escape are at most 1 for a simple escape, 1 + 2 for x, 1 + 4 for u, 1 + 8 for U (F#)
\* and 3 digits for a digit run, whatever follows.
C14_EscapeLength ==
    (lang \in EscapeLanguages /\ Lexing /\ pc \in {"loop", "done"}) =>
        \A i \in EscapeRuns(lx) :
            /\ EscapeLength(lx, i) >= 1
            /\ EscapeLength(lx, i) <= EscapeMax(lang, CharAt(lx.runs[i][1] + 1))

\* C14 amended: the same maxima, except that in Dart `u` followed by `{` starts an escape of
\* up to 6 hex digits that takes the closing `}` with it: at most 2 + 6 + 1 characters behind
\* the backslash.
C14_EscapeLengthAmended ==
    (lang \in EscapeLanguages /\ Lexing /\ pc \in {"loop", "done"}) =>
        \A i \in EscapeRuns(lx) :
            /\ EscapeLength(lx, i) >= 1
            /\ EscapeLength(lx, i) <=
                  EscapeMaxBraced(lang, CharAt(lx.runs[i][1] + 1), CharAt(lx.runs[i][1] + 2))

\* C14 witness: ColouriseFSharpDoc has committed an escape of U and 8 hex digits that more
\* hex digits follow.
C14_Witness ==
    /\ lang = "fsharp" /\ phase = "full" /\ pc = "done"
    /\ doc = EscapeDoc("\"", <<"U">>, "a", MaxEscapeRun, <<>>)
    /\ \E i \in EscapeRuns(lx) : EscapeLength(lx, i) = 1 + 8

\* The cursor is inside an escape that a backslash started: atEscapeEnd is about to be called.
\* The character behind the backslash is the one resetEscapeState was given.
InEscape ==
    /\ lang \in EscapeLanguages /\ Lexing /\ pc = "loop" /\ More(lx)
    /\ lx.state = "ESCAPECHAR" /\ CharAt(lx.startSeg) = "\\"
EscapeHead == CharAt(lx.startSeg + 1)

\* An escape for which resetEscapeState selects digits of a base, and whether ch is one of them:
\* octal or hex digits in Asymptote, hex digits in Dart, decimal or hex digits in F#.
SelectsBase(l, head) == l = "asy" => (IsOctalDigit(head) \/ head \in {"x", "X"})
ValidDigit(l, head, ch) ==
    CASE l = "asy" -> IF IsOctalDigit(head) THEN IsOctalDigit(ch) ELSE IsHexDigit(ch)
      [] l = "dart" -> IsHexDigit(ch)
      [] OTHER -> IF IsADigit(head) THEN IsADigit(ch) ELSE IsHexDigit(ch)

\* One call of atEscapeEnd: the counter goes down by one, and the escape ends, the Colourizer
\* back in outerState, exactly when the counter has reached 0 or the character is no digit of
\* the base the escape selected; an escape that selects no base ends at its first call.
AtEscapeEndCounts ==
    InEscape =>
        LET n == LoopBodyOf(lx)
            left == lx.escSeq.digitsLeft - 1
            ended == n.state # "ESCAPECHAR"
        IN /\ n.escSeq.digitsLeft = left
           /\ ended => n.state = lx.escSeq.outerState
           /\ IF SelectsBase(lang, EscapeHead)
              THEN ended <=> (left <= 0 \/ ~ValidDigit(lang, EscapeHead, Ch(lx)))
              ELSE ended /\ left <= 0

\* C15 as stated (atEscapeEnd): every call decrements digitsLeft by one and returns true exactly
\* when the counter is <= 0 or ch is no digit of the base selected by the most recent
\* resetEscapeState; in Asymptote the base of a simple escape is not one left over from an
\* earlier escape: it is the base of a new EscapeSequence, 0.
C15_AtEscapeEnd ==
    /\ AtEscapeEndCounts
    /\ (InEscape /\ lang = "asy" /\ ~SelectsBase(lang, EscapeHead)) => lx.escSeq.numBase = 0

\* C15 amended: the same for the calls of atEscapeEnd; in Asymptote a simple escape selects no
\* base, numBase keeps the base of the last octal or hex escape, and the escape ends at the
\* first call of atEscapeEnd on the counter alone.
C15_AtEscapeEndAmended ==
    /\ AtEscapeEndCounts
    /\ (InEscape /\ lang = "asy") =>
          IF SelectsBase(lang, EscapeHead)
          THEN lx.escSeq.numBase = (IF IsOctalDigit(EscapeHead) THEN 8 ELSE 16)
          ELSE lx.escSeq.numBase \in {0, 8, 16} /\ lx.escSeq.digitsLeft = 1

\* C15 witness: ColouriseAsyDoc is inside the simple escape `\n` with the base 8 of the octal
\* escape before it.
C15_Witness ==
    /\ InEscape /\ lang = "asy" /\ doc = <<"'", "\\", "1", "\\", "n", "'">>
    /\ EscapeHead = "n" /\ lx.escSeq.numBase = 8

\* The quote that ends a one-line string of language l in state st.
QuoteOf(l, st) ==
    CASE l = "asy" -> IF st = "STRING_SQ" THEN "'" ELSE "\""
      [] l = "dart" -> GetStringQuote(st)
      [] OTHER -> IF st = "CHARACTER" THEN "'" ELSE "\""

\* The iteration that ends an escape: the Colourizer is back in outerState, moved on by
\* `moved` characters, and when the character that ended the escape is the closing quote, the
\* next iteration commits it as the end of the string.
EscapeEndsAt(moved) ==
    LET n == LoopBodyOf(lx) IN
    /\ n.state = lx.escSeq.outerState
    /\ n.pos = lx.pos + moved
    /\ Len(n.runs) > 0 /\ n.runs[Len(n.runs)] = <<lx.startSeg, n.pos, "ESCAPECHAR">>
    /\ (moved = 0 /\ Ch(lx) = QuoteOf(lang, n.state)) =>
          LET m == LoopBodyOf(n)
          IN m.runs[Len(m.runs)] = <<lx.pos, lx.pos + 1, n.state>>

\* C16 as stated (end of an escape): when an escape completes, the Colourizer is back in the
\* recorded outerState without having advanced, and the character that ended the escape is
\* evaluated next under that state, so that a closing quote right behind an escape ends the string.
C16_EscapeEnd ==
    (InEscape /\ LoopBodyOf(lx).state # "ESCAPECHAR") => EscapeEndsAt(0)

\* C16 amended: the same, except that Dart's escape in braces, `\u{...}`, takes the `}` that
\* ends it: the Colourizer advances over it before it is back in outerState.
C16_EscapeEndAmended ==
    (InEscape /\ LoopBodyOf(lx).state # "ESCAPECHAR") =>
        EscapeEndsAt(IF lang = "dart" /\ lx.escSeq.brace /\ Ch(lx) = "}" THEN 1 ELSE 0)

\* C16 witness: in '\n' ColouriseAsyDoc has ended the escape on the closing quote and is on
\* that quote, in the string state.
C16_Witness ==
    /\ lang = "asy" /\ doc = <<"'", "\\", "n", "'">> /\ phase = "full" /\ pc = "loop"
    /\ lx.state = "STRING_SQ" /\ lx.pos = 3 /\ lx.startSeg = 3
    /\ lx.runs = <<<<0, 1, "STRING_SQ">>, <<1, 3, "ESCAPECHAR">>>>

\* The block-comment states of the Colourizers whose block comments nest, and what opens and
\* closes a comment in each.
NestedCommentStates(l) ==
    CASE l = "dart" -> {"COMMENTBLOCK", "COMMENTBLOCKDOC"} [] l = "fsharp" -> {"COMMENT"} [] OTHER -> {}
AtCommentOpener(s) == IF lang = "dart" THEN Match2(s, "/", "*") ELSE Match2(s, "(", "*")
AtCommentCloser(s) == IF lang = "dart" THEN Match2(s, "*", "/") ELSE Match2(s, "*", ")")

\* C17 (nested comment depth): in every pass of ColouriseDartDoc and ColouriseFSharpDoc, while
\* the state is a block comment the depth counter is not negative, an iteration at a closer
\* takes one from it, an iteration at an opener adds one to it, any other leaves it, and the
\* state leaves the block comment exactly when the counter has reached zero.
C17_CommentDepth ==
    (Lexing /\ pc = "loop" /\ More(lx) /\ lx.state \in NestedCommentStates(lang)) =>
        LET n == LoopBodyOf(lx) IN
        /\ lx.commentLevel >= 0
        /\ n.commentLevel =
              lx.commentLevel + (IF AtCommentCloser(lx) THEN 0 - 1 ELSE IF AtCommentOpener(lx) THEN 1 ELSE 0)
        /\ n.state \notin NestedCommentStates(lang) <=> n.commentLevel = 0

\* The braces opened and not yet closed in the p characters before position p.
BraceBalance(p) ==
    LET before == 1..Min(p, Len(doc))
    IN Cardinality({i \in before : doc[i] = "{"}) - Cardinality({i \in before : doc[i] = "}"})

\* C18 (brackets inside an interpolation): over an interpolated string whose embedded
\* expression holds brackets of its own, the string state is resumed only at the `}` that
\* matches the brace that opened the interpolation, not at a `}` that matches a `{` opened
\* inside it; in Dart the stack holds one entry for every brace that is open; in F# an
\* iteration at a `}` ends the interpolation only when the entry's parenCount is <= 0.
C18_NestedBrackets ==
    /\ (lang \in {"dart", "fsharp"} /\ phase = "full" /\ pc = "loop" /\ doc \in NestedInterpolations(lang)) =>
          /\ lang = "dart" => Len(lx.nestedState) = BraceBalance(lx.pos)
          /\ lx.state \in StringStatesOf(lang) =>
                \/ BraceBalance(lx.pos) = 0
                \/ lang = "fsharp" /\ BraceBalance(lx.pos) = 1 /\ Ch(lx) = "}"
    /\ (lang = "fsharp" /\ Lexing /\ pc = "loop" /\ More(lx) /\ Len(lx.nestedState) > 0
            /\ lx.state \notin FSharpStringStates /\ Ch(lx) = "}") =>
          (LoopBodyOf(lx).state \in FSharpStringStates => lx.nestedState[Len(lx.nestedState)].parenCount <= 0)

\* The pass of ColouriseDartDoc at the end of an iteration's switch and new-token part, before
\* the line state is written: cont is set where the code says `continue`.
DartBeforeLineEnd(s) ==
    LET s1 == DartTerminate([s EXCEPT !.cont = FALSE]) IN
    IF s1.cont THEN s1 ELSE DartEnter(s1)

\* C19 (Dart interpolation stack persistence): whenever a line ends with a non-empty
\* nested-state stack, the stack unpacked from the word written for the line is the stack that
\* was packed, entry for entry, at every depth the lexer reaches, and the comment-depth and
\* line-type fields of the word are those of the counters.
C19_StackPersistence ==
    (lang = "dart" /\ Lexing /\ pc = "loop" /\ More(lx)) =>
        LET e == DartBeforeLineEnd(lx)
            w == DartLineState(e)
        IN (~e.cont /\ AtLineEnd(e) /\ Len(e.nestedState) > 0) =>
               /\ ShiftRight(w, 8) # 0
               /\ UnpackLineState(ShiftRight(w, 8)) = e.nestedState
               /\ BitMask(ShiftRight(w, 2), 6) = e.commentLevel
               /\ BitMask(w, 2) = e.lineStateLineType

\* The rules of the classification in their order, for the word w met with the pending
\* keyword type kwType, and the styles the structural heuristic gives.
AsyRules(w, kwType) ==
    << [applies |-> w \in AsyKeywords, style |-> "WORD"],
       [applies |-> w \in AsyTypes, style |-> "TYPE"],
       [applies |-> kwType = "Struct" \/ w \in AsyStructs, style |-> "STRUCT"],
       [applies |-> w \in AsyConstants, style |-> "CONSTANT"] >>
FirstRule(rules) == {i \in DOMAIN rules : rules[i].applies /\ \A j \in 1..(i - 1) : ~rules[j].applies}
AsyHeuristicStyles == {"FUNCTION_DEFINITION", "FUNCTION", "STRUCT", "IDENTIFIER"}
AtIdentifierEnd ==
    /\ lang = "asy" /\ Lexing /\ pc = "loop" /\ More(lx)
    /\ lx.state = "IDENTIFIER" /\ lx.pos > lx.startSeg /\ ~IsIdentifierChar(Ch(lx))
RunText(r) == SubSeq(doc, r[1] + 1, r[2])

\* C20 (identifier classification priority, Asymptote): the iteration that ends an identifier
\* commits it as one run whose style is that of the first rule that applies, in the order
\* keyword list, type list, pending Struct or struct list, constant list, and one of the
\* structural heuristic's styles when none applies; and every committed run whose text is in
\* the keyword list is styled WORD, whatever other list holds the word.
C20_ClassifyPriority ==
    /\ AtIdentifierEnd =>
           LET rules == AsyRules(GetCurrent(lx, 128), lx.kwType)
               n == AsyLoopBody(lx)
               run == n.runs[Len(lx.runs) + 1]
           IN /\ Len(n.runs) = Len(lx.runs) + 1
              /\ run[1] = lx.startSeg /\ run[2] = lx.pos
              /\ \A i \in FirstRule(rules) : run[3] = rules[i].style
              /\ FirstRule(rules) = {} => run[3] \in AsyHeuristicStyles
    /\ (lang = "asy" /\ doc \in WordDocs) =>
           \A i \in DOMAIN lx.runs : RunText(lx.runs[i]) \in AsyKeywords => lx.runs[i][3] = "WORD"

\* `new if(`: the word `if` is in all four lists and the pending keyword type is Struct.
C20_Witness ==
    /\ AtIdentifierEnd
    /\ doc = <<"n","e","w"," ","i","f","(">>
    /\ GetCurrent(lx, 128) = <<"i","f">> /\ lx.kwType = "Struct"
    /\ AsyLoopBody(lx).runs = <<<<0, 3, "WORD">>, <<3, 4, "DEFAULT">>, <<4, 6, "WORD">>>>

\* The pass of ColouriseAsyDoc at the end of an iteration's switch and new-token part.
AsyBeforeLineEnd(s) ==
    LET s1 == AsyTerminate([s EXCEPT !.cont = FALSE]) IN
    IF s1.cont THEN s1 ELSE AsyEnter(s1)

\* The cursor is on the character that ends an identifier, in the Colourizers that keep a
\* pending keyword type; the identifier's text as the Colourizer reads it; the keyword list;
\* the keywords that set the pending keyword type.
IdentifierEnds ==
    /\ Lexing /\ pc = "loop" /\ More(lx) /\ lx.pos > lx.startSeg
    /\ \/ lang = "asy" /\ lx.state = "IDENTIFIER" /\ ~IsIdentifierChar(Ch(lx))
       \/ lang = "dart" /\ lx.state = "IDENTIFIER" /\ ~IsDartIdentifierChar(Ch(lx))
IdentifierText == GetCurrent(lx, IF lang = "asy" THEN 128 ELSE DartMaxKeywordSize)
KeywordsOf(l) == IF l = "asy" THEN AsyKeywords ELSE DartKeywords
TypeIntroducers(l) ==
    IF l = "asy" THEN {<<"n","e","w">>, <<"s","t","r","u","c","t">>, <<"r","e","t","u","r","n">>}
    ELSE DartTypeKeywords \cup {<<"e","n","u","m">>, <<"b","r","e","a","k">>, <<"c","o","n","t","i","n","u","e">>,
                                <<"r","e","t","u","r","n">>, <<"a","w","a","i","t">>, <<"y","i","e","l","d">>}
AtLineEndStep ==
    /\ lang \in {"asy", "dart"} /\ Lexing /\ pc = "loop" /\ More(lx)
    /\ LET e == IF lang = "asy" THEN AsyBeforeLineEnd(lx) ELSE DartBeforeLineEnd(lx)
       IN ~e.cont /\ AtLineEnd(e)

\* C21 (pending keyword type): the iteration that passes an end of line leaves the pending
\* keyword type None, and so does the iteration that ends a keyword which sets no pending
\* keyword type itself, so that an identifier after such a keyword is not styled by a pending
\* type an earlier keyword left.
C21_PendingTypeReset ==
    /\ AtLineEndStep => LoopBodyOf(lx).kwType = "None"
    /\ (IdentifierEnds /\ IdentifierText \in KeywordsOf(lang) \ TypeIntroducers(lang)) =>
           LoopBodyOf(lx).kwType = "None"

\* The last character before offset p that is no white space, and the first one from offset p
\* on, in the whole document.
RECURSIVE PrevNonWhite(_)
PrevNonWhite(p) ==
    IF p <= 0 THEN NUL
    ELSE IF ~IsWhiteSpace(doc[p]) THEN doc[p]
    ELSE PrevNonWhite(p - 1)
RECURSIVE NextNonWhite(_)
NextNonWhite(p) ==
    IF p >= Len(doc) THEN NUL
    ELSE IF ~IsWhiteSpace(doc[p + 1]) THEN doc[p + 1]
    ELSE NextNonWhite(p + 1)
WordListsOf(l) ==
    IF l = "asy" THEN AsyKeywords \cup AsyTypes \cup AsyStructs \cup AsyConstants
    ELSE DartKeywords \cup DartTypes \cup DartClasses \cup DartEnumerations
IdentifierCharOf(l, ch) == IF l = "asy" THEN IsIdentifierChar(ch) ELSE IsDartIdentifierChar(ch)
\* The style of the run that the next iteration commits.
CommittedStyle == LoopBodyOf(lx).runs[Len(lx.runs) + 1][3]

\* C22 (function heuristic, Asymptote and Dart): an identifier of no word list whose next
\* character that is no white space is `(` is committed as FUNCTION_DEFINITION exactly when the
\* pending keyword type is not Return and the last character before it that is no white space
\* is an identifier character or `]`, and as FUNCTION otherwise.
C22_FunctionHeuristic ==
    (IdentifierEnds /\ IdentifierText \notin WordListsOf(lang) /\ NextNonWhite(lx.pos) = "(") =>
        CommittedStyle =
            IF lx.kwType # "Return"
               /\ (IdentifierCharOf(lang, PrevNonWhite(lx.startSeg)) \/ PrevNonWhite(lx.startSeg) = "]")
            THEN "FUNCTION_DEFINITION" ELSE "FUNCTION"

\* The identifier that ends at the cursor is longer than the buffer it is copied into holds.
TruncatedIdentifierEnds ==
    /\ Lexing /\ pc = "loop" /\ More(lx) /\ lx.state = "IDENTIFIER"
    /\ \/ lang = "dart" /\ ~IsDartIdentifierChar(Ch(lx)) /\ LengthCurrent(lx) > DartMaxKeywordSize - 1
       \/ lang = "fsharp" /\ ~IsFSharpIdentifierChar(Ch(lx)) /\ LengthCurrent(lx) > FSharpMaxKeywordSize - 1
TruncatedText == GetCurrent(lx, IF lang = "dart" THEN DartMaxKeywordSize ELSE FSharpMaxKeywordSize)

CMakeBeforeLineEnd(s) ==
    LET s1 == CMakeTerminate([s EXCEPT !.cont = FALSE]) IN
    IF s1.cont THEN s1 ELSE CMakeEnter(s1)

\* The pass at the line-end test of the iteration that starts in s, in the Colourizers that
\* keep per-line flags.
BeforeLineEndOf(s) ==
    CASE lang = "asy" -> AsyBeforeLineEnd(s)
      [] lang = "cmake" -> CMakeBeforeLineEnd(s)
      [] lang = "dart" -> DartBeforeLineEnd(s)
      [] OTHER -> FSharpBeforeLineEnd(s)
LineFlagLanguages == {"asy", "cmake", "dart", "fsharp"}
\* The position at which a line ends, and the text of a line.
LineEndPosition(line) == IF line < lineDocEnd THEN LineStart(line + 1) - 1 ELSE Len(doc)
LineText(line) == SubSeq(doc, LineStart(line) + 1, LineEndPosition(line))
\* The per-line variables of a pass are as at the start of a line.
PerLineReset(s) ==
    /\ s.visibleChars = 0
    /\ lang \in {"asy", "dart"} => s.lineStateLineType = 0 /\ s.kwType = "None"
    /\ lang = "cmake" => s.lineStateLineComment = 0
    /\ lang = "fsharp" => s.lineState = 0 /\ s.indentCount = 0
\* The state word of a line of a block document, from the text of that line alone: the
\* comment-line and import flags, and in F# the indent width and the empty-line flag as well.
\* The document's last line ends with the document, where the character under the cursor is
\* NUL and counts as visible: F# gives it no empty-line flag.
LineWordOf(l, text, last) ==
    CASE text = BlockLine(l, "comment") -> (IF l = "fsharp" THEN PyLineStateMaskCommentLine ELSE 1)
      [] text = BlockLine(l, "import") /\ l \in {"asy", "dart"} -> 2
      [] text = <<>> /\ l = "fsharp" -> (IF last THEN 0 ELSE PyLineStateMaskEmptyLine)
      [] text = <<" ">> /\ l = "fsharp" ->
             BitOr(IF last THEN 0 ELSE PyLineStateMaskEmptyLine, ShiftLeft(1, 16))
      [] text = BlockLine(l, "code") /\ l = "fsharp" -> ShiftLeft(1, 16)
      [] text = <<"}">> /\ l = "fsharp" -> PyLineStateMaskCloseBrace
      [] OTHER -> 0

\* C24 (line-end bookkeeping; Asymptote, CMake, Dart, F#): a line state word is written only
\* by the iteration that passes the end of a line, that iteration writes the word of that line
\* and of no other, no line is written twice in a pass and no line end is passed without it;
\* the word is the one the text of the line gives, whatever the line before was, and the
\* per-line variables are reset when the iteration ends.
C24_LineEndBookkeeping ==
    (lang \in LineFlagLanguages /\ Lexing /\ pc = "loop" /\ More(lx)) =>
        LET e == BeforeLineEndOf(lx)
            n == LoopBodyOf(lx)
            atEnd == ~e.cont /\ AtLineEnd(e)
            line == CurrentLine(e)
        IN /\ ~atEnd => n.ls = lx.ls /\ n.lsSet = lx.lsSet
           /\ (\E l \in 0..lineDocEnd : lx.pos <= LineEndPosition(l) /\ LineEndPosition(l) < n.pos) => atEnd
           /\ atEnd =>
                  /\ line \notin lx.lsSet /\ n.lsSet = lx.lsSet \cup {line}
                  /\ \A l \in 0..lineDocEnd : l # line => n.ls[l + 1] = lx.ls[l + 1]
                  /\ n.ls[line + 1] = LineWordOf(lang, LineText(line), line = lineDocEnd)
                  /\ PerLineReset(n)

\* CMake `#c` + LF + `set(V)`: the end of line 1 is passed in the pass that wrote 1 for line 0.
C24_Witness ==
    /\ lang = "cmake" /\ doc = <<"#","c",LF,"s","e","t","(","V",")">> /\ phase = "full" /\ pc = "loop"
    /\ lx.pos = 10 /\ lx.lsSet = {0, 1} /\ lx.ls = <<1, 0>> /\ PerLineReset(lx)

\* The styles of each language's enumeration.
StylesOf(l) ==
    CASE l = "asy" ->
             {"DEFAULT", "COMMENTLINE", "COMMENTBLOCK", "TASKMARKER", "OPERATOR", "NUMBER", "IDENTIFIER",
              "STRING_SQ", "STRING_DQ", "ESCAPECHAR", "WORD", "TYPE", "STRUCT", "CONSTANT", "FUNCTION",
              "FUNCTION_DEFINITION"}
      [] l = "dart" ->
             {"DEFAULT", "COMMENTLINE", "COMMENTLINEDOC", "COMMENTBLOCK", "COMMENTBLOCKDOC", "TASKMARKER",
              "OPERATOR", "OPERATOR2", "NUMBER", "IDENTIFIER", "SIMPLE_IDENTIFIER", "METADATA",
              "SYMBOL_IDENTIFIER", "SYMBOL_OPERATOR", "STRING_SQ", "STRING_DQ", "TRIPLE_STRING_SQ",
              "TRIPLE_STRING_DQ", "RAWSTRING_SQ", "RAWSTRING_DQ", "TRIPLE_RAWSTRING_SQ",
              "TRIPLE_RAWSTRING_DQ", "ESCAPECHAR", "WORD", "WORD2", "CLASS", "ENUM", "LABEL", "KEY",
              "FUNCTION", "FUNCTION_DEFINITION"}
      [] l = "powershell" ->
             {"DEFAULT", "COMMENT", "COMMENTSTREAM", "STRING_DQ", "STRING_SQ", "NUMBER", "VARIABLE",
              "OPERATOR", "IDENTIFIER", "KEYWORD", "CMDLET", "ALIAS", "FUNCTION", "USER1"}
      [] l = "cmake" -> {CMakeStyles[i] : i \in DOMAIN CMakeStyles}
      [] l = "fsharp" -> {FSharpStyles[i] : i \in DOMAIN FSharpStyles}
      [] OTHER -> {VHDLStyles[i] : i \in DOMAIN VHDLStyles}

\* The pass after at most k iterations of the loop.
\* The stray characters of a language: in CMake a backslash outside a string starts an
\* escape sequence, everywhere else it starts nothing.
StrayCharsOf(l) == IF l = "cmake" THEN StrayChars \ {"\\"} ELSE StrayChars

RECURSIVE Iterated(_, _)
Iterated(s, k) == IF k = 0 \/ ~More(s) THEN s ELSE Iterated(LoopBodyOf(s), k - 1)
MaxStall == 3

\* C25 (no input is rejected): every iteration leaves the Colourizer in a state of its
\* language's enumeration, the cursor moves on within MaxStall iterations until the range is
\* used up, a pass that has ended has reached the end of its range and has given every
\* character of the range a style of the enumeration, and a document of stray closers and
\* backslashes is styled OPERATOR or DEFAULT throughout.
C25_NoInputRejected ==
    /\ (Lexing /\ pc = "loop") => lx.state \in StylesOf(lang)
    /\ (Lexing /\ pc = "loop" /\ More(lx)) =>
           LET n == Iterated(lx, MaxStall) IN n.pos > lx.pos \/ n.eof
    /\ (Lexing /\ pc = "done") =>
           /\ ~More(lx)
           /\ \A p \in (lx.startPos + 1)..Min(lx.endPos, Len(doc)) : lx.styles[p] \in StylesOf(lang)
           /\ (\A i \in DOMAIN doc : doc[i] \in StrayCharsOf(lang)) =>
                  \A p \in (lx.startPos + 1)..Len(doc) : lx.styles[p] \in {"OPERATOR", "DEFAULT"}


\* Two closing braces with nothing open, in Dart: both are plain operators and the pass ends.
C25_Witness ==
    /\ lang = "dart" /\ doc = <<"}", "}">> /\ phase = "full" /\ pc = "done"
    /\ lx.styles = <<"OPERATOR", "OPERATOR">> /\ lx.nestedState = <<>>


\* One iteration of the Folder of the language.
FoldLoopBodyOf(s) ==
    CASE lang = "asy" -> FoldAsyLoopBody(s)
      [] lang = "cmake" -> FoldCMakeLoopBody(s)
      [] lang = "dart" -> FoldDartLoopBody(s)
      [] lang = "vhdl" -> FoldVHDLLoopBody(s)
      [] OTHER -> FoldPSLoopBody(s)

\* The Folders that build blocks of comment lines and import lines, and the kind of block a
\* line state word marks: 1 a line-comment-only line, 2 an import line, 0 neither.
BlockFoldLanguages == {"asy", "cmake", "dart"}
BlockFlag(w) ==
    IF BitAnd(w, 1) # 0 THEN 1
    ELSE IF lang # "cmake" /\ BitAnd(ShiftRight(w, 1), 1) # 0 THEN 2
    ELSE 0
\* Whether the word w carries the flag of the block kind k.
HasFlag(w, k) == IF k = 1 THEN BitAnd(w, 1) ELSE BitAnd(ShiftRight(w, 1), 1)
\* Lines first..last are one block: all of the kind of first.
SameRun(s, first, last) ==
    \A j \in first..last : BlockFlag(GetLineState(s, j)) = BlockFlag(GetLineState(s, first))

\* C26 (comment/import block folding, Asymptote, CMake, Dart): in the iteration that commits
\* a line whose state word marks it comment-only or import-only, the end of the line adds
\* flag(next line) - flag(previous line) to levelNext; and once the Folder has returned, of a
\* maximal run of two or more such lines the first is a header, the others sit one level
\* above it, the level after the last is the level of the first, and a single such line has
\* level and next level equal and no header flag.
C26_BlockFolding ==
    /\ (lang \in BlockFoldLanguages /\ Folding /\ pc = "loop" /\ lx.i < lx.endPos) =>
           LET n == FoldLoopBodyOf(lx)
               line == lx.lineCurrent
               k == BlockFlag(GetLineState(lx, line))
               inLine == n.evChar[line + 1] - lx.evChar[line + 1]
           IN (n.lineCurrent = line + 1 /\ k # 0) =>
                  n.levelNext - (lx.levelNext + inLine) =
                      HasFlag(GetLineState(lx, line + 1), k) - HasFlag(GetLineState(lx, line - 1), k)
    /\ (lang \in BlockFoldLanguages /\ Folding /\ pc = "done") =>
           \A first \in 0..lineDocEnd :
               LET k == BlockFlag(GetLineState(lx, first))
                   w == lx.levels[first + 1]
               IN (k # 0 /\ HasFlag(GetLineState(lx, first - 1), k) = 0) =>
                      /\ HasFlag(GetLineState(lx, first + 1), k) = 0 =>
                             ~FoldHeaderOf(w) /\ FoldNextOf(w) = FoldLevelOf(w)
                      /\ HasFlag(GetLineState(lx, first + 1), k) # 0 =>
                             /\ FoldHeaderOf(w) /\ FoldNextOf(w) = FoldLevelOf(w) + 1
                             /\ \A m \in (first + 1)..lineDocEnd : SameRun(lx, first, m) =>
                                    LET v == lx.levels[m + 1] IN
                                    /\ FoldLevelOf(v) = FoldLevelOf(w) + 1 /\ ~FoldHeaderOf(v)
                                    /\ FoldNextOf(v) = IF HasFlag(GetLineState(lx, m + 1), k) # 0
                                                       THEN FoldLevelOf(w) + 1 ELSE FoldLevelOf(w)


\* Three comment lines and nothing else, in Asymptote, folded: a header and two lines above it.
C26_Witness ==
    /\ lang = "asy" /\ phase = "fold" /\ pc = "done" /\ lineDocEnd = 2 /\ lx.ls = <<1, 1, 1>>
    /\ FoldHeaderOf(lx.levels[1]) /\ FoldLevelOf(lx.levels[1]) = SC_FOLDLEVELBASE
    /\ FoldLevelOf(lx.levels[2]) = SC_FOLDLEVELBASE + 1 /\ FoldLevelOf(lx.levels[3]) = SC_FOLDLEVELBASE + 1
    /\ FoldNextOf(lx.levels[3]) = SC_FOLDLEVELBASE


\* A line of white space or of nothing, and the level carried into a line.
BlankText(text) == \A i \in DOMAIN text : text[i] = " "
CarriedLevel(s, line) == IF line = 0 THEN SC_FOLDLEVELBASE ELSE FoldNextOf(s.levels[line])

\* C27 (blank lines): the iteration of a Folder that commits a line of white space or of
\* nothing writes for it the level carried from the line before as its level, the same level
\* as its next level, and no header flag.
C27_BlankLineLevel ==
    (Folding /\ pc = "loop" /\ lx.i < lx.endPos) =>
        LET n == FoldLoopBodyOf(lx)
            line == lx.lineCurrent
            w == n.levels[line + 1]
        IN (n.lineCurrent = line + 1 /\ line <= lineDocEnd /\ BlankText(LineText(line))) =>
               /\ line \in n.seen
               /\ FoldLevelOf(w) = CarriedLevel(lx, line)
               /\ FoldNextOf(w) = FoldLevelOf(w)
               /\ ~FoldHeaderOf(w)


\* The start of the word that ends at position p.
RECURSIVE WordStartAt(_)
WordStartAt(p) == IF p > 0 /\ iswordchar(CharAt(p - 1)) THEN WordStartAt(p - 1) ELSE p
\* A fold keyword of the code ends at position q.
VHDLFoldWordEndsAt(s, q) ==
    /\ VHDLIsCode(StyleAt(s, q)) /\ iswordchar(CharAt(q)) /\ ~iswordchar(CharAt(q + 1))
    /\ iswordstart(CharAt(WordStartAt(q)))
    /\ VHDLWord(WordStartAt(q), q) \in VHDLFold
\* The last fold keyword of the code that ends before position p, read from the text.
RECURSIVE LastFoldWordBefore(_, _)
LastFoldWordBefore(s, p) ==
    IF p <= 0 THEN <<>>
    ELSE IF VHDLFoldWordEndsAt(s, p - 1) THEN VHDLWord(WordStartAt(p - 1), p - 1)
    ELSE LastFoldWordBefore(s, p - 1)
\* A `begin` ends at position p, and the fold keyword before it is one of the three units.
VHDLUnitBeginAt(s, p) ==
    /\ VHDLFoldWordEndsAt(s, p)
    /\ VHDLWord(WordStartAt(p), p) = <<"b","e","g","i","n">>
    /\ LastFoldWordBefore(s, WordStartAt(p)) \in
           {<<"a","r","c","h","i","t","e","c","t","u","r","e">>, <<"f","u","n","c","t","i","o","n">>,
            <<"p","r","o","c","e","d","u","r","e">>}

\* C28 (VHDL fold commit): FoldVHDLDoc commits a line at its line end and at the last
\* position of the range; the level it commits is min(levelCurrent, levelMinCurrentBegin)
\* when fold.at.Begin is on and levelCurrent when it is off; levelMinCurrentBegin changes
\* within a line only at a `begin` whose most recent fold keyword is architecture, function
\* or procedure, and then to levelNext - 1; after a commit it is the new current level.
C28_VHDLFoldCommit ==
    (lang = "vhdl" /\ Folding /\ pc = "loop" /\ lx.i < lx.endPos) =>
        LET n == FoldVHDLLoopBody(lx)
            line == lx.lineCurrent
            commit == n.lineCurrent = line + 1
            lowered == IF VHDLUnitBeginAt(lx, lx.i) THEN {lx.levelMinCurrentBegin, n.levelNext - 1}
                       ELSE {lx.levelMinCurrentBegin}
        IN /\ commit <=> (CharAt(lx.i) = LF \/ lx.i = lx.endPos - 1)
           /\ commit =>
                  /\ \E m \in lowered :
                         FoldLevelOf(n.levels[line + 1]) =
                             (IF lx.foldAtBegin THEN Min(lx.levelCurrent, m) ELSE lx.levelCurrent)
                  /\ FoldNextOf(n.levels[line + 1]) = n.levelNext
                  /\ n.levelCurrent = n.levelNext
                  /\ n.levelMinCurrentBegin = n.levelCurrent
           /\ ~commit =>
                  /\ n.levelMinCurrentBegin \in lowered
                  /\ n.levelCurrent = lx.levelCurrent
                  /\ n.levels = lx.levels

\* An architecture with its `begin` on the next line, folded with fold.at.Begin on: the line
\* of `begin` is committed one level below the current level, as a header.
C28_Witness ==
    /\ lang = "vhdl" /\ phase = "fold" /\ pc = "done" /\ lx.foldAtBegin
    /\ doc = JoinLines(<<VHDLArchitectureLine, <<"b","e","g","i","n">>, <<"e","n","d",";">>>>)
    /\ FoldLevelOf(lx.levels[2]) = SC_FOLDLEVELBASE /\ FoldNextOf(lx.levels[2]) = SC_FOLDLEVELBASE + 1
    /\ FoldHeaderOf(lx.levels[2])


\* The cursor of ColouriseFSharpDoc is on a `%` inside a string, where the text of the string
\* is looked at (LexFSharp.cxx lines 314-342).
AtPercent ==
    /\ lang = "fsharp" /\ Lexing /\ pc = "loop" /\ More(lx)
    /\ lx.state \in FSharpStringStates \ {"CHARACTER"}
    /\ Ch(lx) = "%"
    /\ ~(lx.insideUrl /\ IsInvalidUrlChar("%"))
\* The string was opened with more than one `$`, so a run of `%` introduces a specifier.
PercentRun == lx.state = "INTERPOLATED_TRIPLE_STRING" /\ lx.stringInterpolatorCount > 1
\* What the lookahead returns where the Colourizer calls it: at the cursor, and in a string
\* opened with more than one `$` at the last `%` of a run as long as the `$` run.
PercentLookahead ==
    LET count == GetMatchedDelimiterCount(lx.pos, "%")
        at == IF PercentRun THEN lx.pos + count - 1 ELSE lx.pos
    IN [called |-> ~PercentRun \/ count = lx.stringInterpolatorCount,
        at |-> at,
        length |-> CheckPercentFormatSpecifier([lx EXCEPT !.pos = at], lx.insideUrl)]
\* The iteration committed a FORMAT_SPECIFIER token.
SpecifierStyled(n) ==
    Len(n.runs) > Len(lx.runs) /\ \E i \in (Len(lx.runs) + 1)..Len(n.runs) : n.runs[i][3] = "FORMAT_SPECIFIER"

\* C29 (F# percent format specifier): at a `%` inside a string the iteration styles
\* FORMAT_SPECIFIER only when the lookahead returned a length other than 0, and then the
\* cursor is past the specifier, the token from the `%` to the cursor is FORMAT_SPECIFIER and
\* the string state is resumed; when the lookahead returns 0 nothing is styled
\* FORMAT_SPECIFIER, the string state stays and the cursor has moved by one character.
C29_PercentSpecifier ==
    AtPercent =>
        LET n == LoopBodyOf(lx)
            look == PercentLookahead
        IN /\ SpecifierStyled(n) => look.called /\ look.length # 0
           /\ (look.called /\ look.length # 0) =>
                  /\ n.pos = look.at + look.length
                  /\ n.state = lx.state
                  /\ \A p \in lx.pos..(n.pos - 1) : n.styles[p + 1] = "FORMAT_SPECIFIER"
           /\ (look.called /\ look.length = 0) =>
                  /\ n.pos = lx.pos + 1
                  /\ n.state = lx.state
                  /\ ~SpecifierStyled(n)


\* C29, amended: as above outside a string opened with more than one `$`; in such a string a
\* run of `%` as long as the `$` run is styled FORMAT_SPECIFIER up to its last `%` whatever
\* the lookahead from that `%` returns, the specifier it found included, and a run of another
\* length is stepped over as string content.
C29_PercentSpecifierAmended ==
    AtPercent =>
        LET n == LoopBodyOf(lx)
            look == PercentLookahead
        IN /\ ~PercentRun => (SpecifierStyled(n) => look.length # 0)
           /\ (look.called /\ look.length # 0) =>
                  /\ n.pos = look.at + look.length
                  /\ n.state = lx.state
                  /\ \A p \in lx.pos..(n.pos - 1) : n.styles[p + 1] = "FORMAT_SPECIFIER"
           /\ (look.called /\ look.length = 0) =>
                  /\ n.pos = IF PercentRun THEN look.at ELSE lx.pos + 1
                  /\ n.state = lx.state
                  /\ IF PercentRun
                     THEN \A p \in lx.pos..(look.at - 1) : n.styles[p + 1] = "FORMAT_SPECIFIER"
                     ELSE ~SpecifierStyled(n)
           /\ ~look.called =>
                  /\ n.pos = lx.pos + GetMatchedDelimiterCount(lx.pos, "%")
                  /\ n.state = lx.state
                  /\ ~SpecifierStyled(n)

\* `$$"""%%"""`: the first `%` is a FORMAT_SPECIFIER though no specifier follows the run.
C29_Witness ==
    /\ lang = "fsharp" /\ doc = TripleDollar(<<"%", "%">>) /\ phase = "full" /\ pc = "done"
    /\ lx.styles[6] = "FORMAT_SPECIFIER" /\ lx.styles[7] = "INTERPOLATED_TRIPLE_STRING"


\* The fold levels the document holds: a Colourizer's pass has none of its own.
DocLevels(s) == IF "levels" \in DOMAIN s THEN s.levels ELSE BlankLevels
\* The first line of the range of a Fold pass.
FoldFirstLine == GetLine(FoldStart)

\* A step taken while a Folder is at work leaves every style and every line state word as it
\* was and changes the level of no line before the range of the pass.
FolderWritesLevelsOnly ==
    Folding =>
        /\ lx'.styles = lx.styles
        /\ lx'.ls = lx.ls
        /\ \A line \in 0..lineDocEnd :
               DocLevels(lx')[line + 1] # DocLevels(lx)[line + 1] =>
                   /\ line >= FoldFirstLine
                   /\ line = lx.lineCurrent
\* A step of a Colourizer changes no fold level.
ColouriserWritesNoLevel == (Lexing /\ phase' = phase) => DocLevels(lx') = DocLevels(lx)

\* C30 (forward data flow): no step of a Folder changes a style or a line state word, it
\* changes the level of the line it commits only, a line of its range; and no step of a
\* Colourizer changes a fold level.
C30_ForwardDataFlow == [][FolderWritesLevelsOnly /\ ColouriserWritesNoLevel]_vars

\* A Dart document folded again from a later line: the levels of the lines from there on were
\* written, the line before was not touched.
C30_Witness ==
    /\ lang = "dart" /\ phase = "refold" /\ pc = "done" /\ FoldFirstLine > 0
    /\ lx.setLevel[FoldFirstLine + 1] > 0 /\ lx.setLevel[FoldFirstLine] = 0
    /\ \E p \in DOMAIN lx.styles : lx.styles[p] # "DEFAULT"

\* ------------------------------------------------------------ termination of a Colourizer pass

\* The six Colourizers; a pass that has started runs its loop to the end, whatever the host
\* does afterwards.
Colourise ==
    \/ ColourisePowerShellDoc \/ ColouriseVHDLDoc \/ ColouriseAsyDoc
    \/ ColouriseCMakeDoc \/ ColouriseDartDoc \/ ColouriseFSharpDoc
\* The documents of the termination check: the strings of ContinueDocs, a string that is
\* never closed, interpolations with brackets of their own, and a string whose backslash
\* ends a line.
TerminationDocs(l) ==
    ContinueDocs(l) \cup NestedInterpolations(l) \cup {UnterminatedString, BackslashAtLineEnd("\"")}
InitTermination ==
    /\ lang \in Languages
    /\ doc \in TerminationDocs(lang)
    /\ phase = "full" /\ pc = "start" /\ split = 0
    /\ lx = IdlePass
    /\ full = IdlePass
    /\ EditorIdle
\* A Colourizer can take a step that changes the state: a pass waits to start, or is in its
\* loop and either has used up its range or has an iteration that changes something.
ColouriseEnabled ==
    Lexing /\ (pc = "start" \/ (pc = "loop" /\ (More(lx) => LoopBodyOf(lx) # lx)))
\* Weak fairness of the Colourizers, WF_vars(Colourise), in its defining form with the
\* enabling condition written as the state predicate above: the loop of a pass is
\* sequential code that runs on once entered, while the host may stop asking for passes.
ColouriseFairness == []<>(~ColouriseEnabled) \/ []<><<Colourise>>_vars
SpecTermination == InitTermination /\ [][NextStrings]_vars /\ ColouriseFairness

\* An iteration that ends with `continue` and leaves the cursor where it was.
StalledContinue(s) == More(s) /\ LoopBodyOf(s).cont /\ LoopBodyOf(s).pos = s.pos

\* C31 (termination): an iteration that does not end with `continue` moves the cursor on, an
\* iteration that ends with `continue` without having moved the cursor is followed by one
\* that moves it, and every pass that has been started reaches the end of its range.
C31_Termination ==
    /\ [](Lexing /\ pc = "loop" /\ More(lx) =>
            LET n == LoopBodyOf(lx) IN
            /\ ~n.cont => n.pos > lx.pos
            /\ StalledContinue(lx) => (More(n) /\ LoopBodyOf(n).pos > n.pos))
    /\ (Lexing /\ pc = "start") ~> (Lexing /\ pc = "done" /\ ~More(lx))

\* CMake, `"$a "`: the variable has just ended on the space with a `continue`, the cursor
\* still on the space and the string state restored.
C31_Witness ==
    /\ lang = "cmake" /\ doc = <<"\"", "$", "a", " ", "\"">> /\ phase = "full" /\ pc = "loop"
    /\ lx.pos = 3 /\ lx.cont /\ lx.state = "STRING"
    /\ lx.styles[2] = "VARIABLE_DOLLAR" /\ lx.styles[3] = "VARIABLE_DOLLAR"

\* C32 (fold continuity): in the PowerShell, Asymptote, CMake and Dart Folders the iteration
\* that commits a line writes as the line's level the next level stored for the line before
\* it (the base level for line 0), whether this pass or an earlier one stored it, and
\* carries the next level it writes into the following line.
C32_FoldContinuity ==
    (Folding /\ pc = "loop" /\ lx.i < lx.endPos /\ lang \in {"powershell", "asy", "cmake", "dart"}) =>
        LET n == FoldLoopBodyOf(lx)
            line == lx.lineCurrent
            w == n.levels[line + 1]
        IN (n.lineCurrent = line + 1 /\ line <= lineDocEnd) =>
               /\ line \in n.seen
               /\ FoldLevelOf(w) = CarriedLevel(n, line)
               /\ n.levelCurrent = FoldNextOf(w)

\* A fold of PowerShell resumed at a later line, inside an open block: its first line has
\* been committed one above the base level, as the line before it says.
C32_Witness ==
    /\ lang = "powershell" /\ phase = "refold" /\ pc = "loop" /\ FoldFirstLine > 0
    /\ FoldFirstLine \in lx.seen
    /\ FoldLevelOf(lx.levels[FoldFirstLine + 1]) = SC_FOLDLEVELBASE + 1
    /\ FoldNextOf(lx.levels[FoldFirstLine]) = SC_FOLDLEVELBASE + 1

\* ------------------------------------------------------------ balanced constructs

\* The Folders that count block comments, bracket arguments and strings that span lines, and
\* the styles of these constructs.
ConstructLanguages == {"powershell", "asy", "cmake"}
ConstructStyles(l) ==
    CASE l = "powershell" -> {"COMMENTSTREAM"}
      [] l = "asy" -> {"COMMENTBLOCK", "STRING_SQ", "STRING_DQ"}
      [] l = "cmake" -> {"BLOCK_COMMENT", "BRACKET_ARGUMENT"}
      [] OTHER -> {}
\* Styles that the Folder takes for one and the same construct.
SameConstruct(a, b) ==
    \/ a = b
    \/ lang = "asy" /\ IsMultilineStringStyle(a) /\ IsMultilineStringStyle(b)

\* The constructs the Colourizer committed, each as <<first, last>>: the runs of a construct
\* style with no escape sequence beside them that are closed (the run ends before the
\* document does, or the Colourizer ended outside the construct).
ClosedConstructs(s) ==
    {<<s.runs[k][1], s.runs[k][2] - 1>> : k \in
        {k \in 1..Len(s.runs) :
            /\ s.runs[k][3] \in ConstructStyles(lang)
            /\ (k > 1 => s.runs[k - 1][3] # "ESCAPECHAR")
            /\ (k < Len(s.runs) => s.runs[k + 1][3] # "ESCAPECHAR")
            /\ (s.runs[k][2] < Len(doc) \/ s.endState \notin ConstructStyles(lang))}}
\* Those opened inside the range of the pass.
Constructs(s) == {c \in ClosedConstructs(s) : c[1] >= s.startPos}
\* The same with constructs that touch taken as one: <<first, last>> of every longest stretch
\* of constructs of which each starts where the one before ended, in the same style.
Touching(s, c, d) == d[1] = c[2] + 1 /\ SameConstruct(StyleAt(s, c[2]), StyleAt(s, d[1]))
Stretches(s) ==
    LET cs == ClosedConstructs(s) IN
    {<<c[1], d[2]>> : <<c, d>> \in
        {<<c, d>> \in cs \X cs :
            /\ c[1] <= d[1] /\ c[1] >= s.startPos
            /\ ~\E b \in cs : Touching(s, b, c)
            /\ ~\E e \in cs : Touching(s, d, e)
            /\ \A p \in c[1]..d[2] : \E m \in cs : m[1] <= p /\ p <= m[2]
            /\ \A m \in cs : (c[1] < m[1] /\ m[1] <= d[1]) => \E b \in cs : Touching(s, b, m)}}

\* The change of the fold level that the iteration at the cursor counts for the character.
CharEvent(s) ==
    LET line == GetLine(s.i) IN FoldLoopBodyOf(s).evChar[line + 1] - s.evChar[line + 1]

\* C33 as stated: +1 at the first character and -1 at the last character of every closed
\* construct, those that touch another construct of the same style included.
C33_BalancedConstructs ==
    (Folding /\ pc = "loop" /\ lx.i < lx.endPos /\ lang \in ConstructLanguages) =>
        \A c \in Constructs(lx) :
            /\ lx.i = c[1] => CharEvent(lx) = 1
            /\ lx.i = c[2] => CharEvent(lx) = -1

\* C33 (balanced constructs, amended): in the PowerShell, Asymptote and CMake Folders every
\* closed block comment, bracket argument or string changes the fold level by +1 at its first
\* character and by -1 at its last, whatever its length, where constructs of the same style
\* with nothing between them count as one construct from the first character of the first to
\* the last character of the last; no other character of a construct changes the level.
C33_BalancedConstructsAmended ==
    (Folding /\ pc = "loop" /\ lx.i < lx.endPos /\ lang \in ConstructLanguages) =>
        \A c \in Stretches(lx) :
            /\ c[1] < c[2]
            /\ lx.i = c[1] => CharEvent(lx) = 1
            /\ lx.i = c[2] => CharEvent(lx) = -1
            /\ (c[1] < lx.i /\ lx.i < c[2]) => CharEvent(lx) = 0

\* CMake, `#[[]]#[[]]`: the fold has counted the first character and is at the last one of the
\* second comment, one level up.
C33_Witness ==
    /\ lang = "cmake" /\ doc = <<"#","[","[","]","]","#","[","[","]","]">>
    /\ phase = "fold" /\ pc = "loop" /\ lx.i = 9
    /\ Constructs(lx) = {<<0, 4>>, <<5, 9>>} /\ Stretches(lx) = {<<0, 9>>}
    /\ lx.levelNext = SC_FOLDLEVELBASE + 1 /\ CharEvent(lx) = -1

BracketStyles == {"BLOCK_COMMENT", "BRACKET_ARGUMENT"}
CloserAt(q, n) == CharAt(q) = "]" /\ CountEquals(q + 1) = n /\ CharAt(q + 1 + n) = "]"
CloserAtAny(q) == CloserAt(q, CountEquals(q + 1))
InBracket == lang = "cmake" /\ Lexing /\ pc = "loop" /\ More(lx) /\ lx.state \in BracketStyles
\* The `[` that opens the construct of a run, and the closers with n `=` from a position on.
OpenerOf(r) == IF r[3] = "BLOCK_COMMENT" THEN r[1] + 1 ELSE r[1]
MatchingClosers(from, n) == {q \in from..(Len(doc) - 1) : CloserAt(q, n)}

\* The cursor is in a bracket state: the state is left only on a closer with the recorded
\* number of `=`, to DEFAULT and with the number reset; a closer with another number changes
\* nothing; a closer with the recorded number ends the construct.
BracketStep ==
    InBracket =>
        LET t == CMakeTerminate([lx EXCEPT !.cont = FALSE]) IN
        /\ t.state # lx.state =>
               /\ CloserAt(lx.pos, lx.bracketNumber)
               /\ t.state = "DEFAULT" /\ t.bracketNumber = 0
               /\ t.pos = lx.pos + lx.bracketNumber + 2
        /\ (CloserAtAny(lx.pos) /\ ~CloserAt(lx.pos, lx.bracketNumber)) =>
               (t.state = lx.state /\ t.bracketNumber = lx.bracketNumber)
        /\ CloserAt(lx.pos, lx.bracketNumber) => (t.state = "DEFAULT" /\ t.bracketNumber = 0)
\* The document has been lexed in one pass: every bracket construct ends with the first
\* closer after its opener that has the opener's number of `=`, or with the document.
BracketRuns ==
    (lang = "cmake" /\ phase = "full" /\ pc = "done") =>
        \A k \in 1..Len(lx.runs) :
            LET r == lx.runs[k]
                n == CountEquals(OpenerOf(r) + 1)
                cs == MatchingClosers(OpenerOf(r) + n + 2, n)
            IN r[3] \in BracketStyles =>
                   r[2] = IF cs = {} THEN Len(doc) ELSE (CHOOSE q \in cs : \A o \in cs : q <= o) + n + 2

\* C35 (CMake bracket matching): a bracket argument or bracket comment opened with N `=` is
\* closed by `]`, N times `=`, `]` and by nothing else; a closer with another number of `=`
\* leaves the state, and after the matching closer the state is DEFAULT and the recorded
\* number 0.
C35_BracketMatching == BracketStep /\ BracketRuns

\* ------------------------------------------------------------ the editor's objects in use
\* While the editor's objects are exercised no lexer runs.
LexerIdle ==
    /\ lang = "powershell" /\ doc = <<>>
    /\ phase = "full" /\ pc = "done" /\ split = 0
    /\ lx = IdlePass /\ full = IdlePass

\* The key strings of the calls: of length 0 to 4, with and without leading NUL bytes, the line
\* end "\r\n" among them; the texts are two that are kept and one that is too long.
ReprStrings ==
    {<<>>, <<0>>, <<10>>, <<13>>, <<13, 10>>, <<10, 13>>, <<0, 10>>, <<0, 13, 10>>, <<0, 0, 13, 10>>}
ReprValues == {"x", "y", TooLongText}
\* At most MaxCalls calls are made on the SpecialRepresentations.
MaxCalls == 4
Called(r) == [r EXCEPT !.calls = @ + 1]

InitRepresentations ==
    /\ LexerIdle
    /\ reprs = NewSpecialRepresentations
    /\ pcache = NewPositionCache /\ llc = NewLineLayoutCache /\ bf = NoBreakFinder
CallSetRepresentation ==
    /\ reprs.calls < MaxCalls
    /\ \E charBytes \in ReprStrings, value \in ReprValues :
          reprs' = Called(SetRepresentation(reprs, charBytes, value))
    /\ UNCHANGED <<lexer, pcache, llc, bf>>
CallClearRepresentation ==
    /\ reprs.calls < MaxCalls
    /\ \E charBytes \in ReprStrings : reprs' = Called(ClearRepresentation(reprs, charBytes))
    /\ UNCHANGED <<lexer, pcache, llc, bf>>
CallClear ==
    /\ reprs.calls < MaxCalls
    /\ reprs' = Called(SpecialRepresentationsClear(reprs))
    /\ UNCHANGED <<lexer, pcache, llc, bf>>
NextRepresentations == CallSetRepresentation \/ CallClearRepresentation \/ CallClear
SpecRepresentations == InitRepresentations /\ [][NextRepresentations]_vars

\* The first byte of the shortest string that packs to a key.
RECURSIVE LeadingByte(_)
LeadingByte(key) == IF key < 256 THEN key ELSE LeadingByte(key \div 256)
StoredWithStart(r, b) == {key \in DOMAIN r.mapReprs : LeadingByte(key) = b}

\* C36: after any sequence of SetRepresentation, ClearRepresentation and Clear calls with keys
\* of length 0 to 4, the counter startByteHasReprs[b] of every byte b is the number of stored
\* representations whose key starts with b, and so RepresentationFromCharacter and Contains
\* find an entry exactly when GetRepresentation does.
C36_StartByteCounters ==
    /\ \A b \in ReprBytes : reprs.startByteHasReprs[b] = Cardinality(StoredWithStart(reprs, b))
    /\ \A charBytes \in ReprStrings :
          /\ RepresentationFromCharacter(reprs, charBytes) = GetRepresentation(reprs, charBytes)
          /\ Contains(reprs, charBytes) = (GetRepresentation(reprs, charBytes) # NoRepresentation)

\* C37: after any sequence of SetRepresentation, ClearRepresentation and Clear calls, the crlf
\* flag is set exactly when a representation is stored for the two-byte key "\r\n".
C37_CrLfFlag ==
    reprs.crlf <=> (GetRepresentation(reprs, <<13, 10>>) # NoRepresentation)
\* The line end's representation is the one left after four calls.
C37_Witness ==
    /\ reprs.calls = MaxCalls
    /\ reprs.crlf
    /\ DOMAIN reprs.mapReprs = {representationKeyCrLf}

\* ------------------------------------------------------------ the PositionCache in use
\* The measured texts: "h", "p" and the byte 200 share both probes of a cache of eight, "a"
\* has two probes of its own, and LongText is too long to be cached.
LongText == [i \in 1..64 |-> 97]
CacheTexts == {<<104>>, <<112>>, <<97>>, <<200>>, LongText}
CacheStyles == {0, 1}
CacheSizes == {0, 1, 3, 8}
\* At most MaxCacheCalls calls are made on the PositionCache.
MaxCacheCalls == 4
\* A cache of eight in which "a" was measured once and then "h" and "p" in turn, n times in
\* all, each pushing the other out of slot 0: the n-th of them is there with the clock n + 2.
AgedPositionCache(n) ==
    [size |-> 8,
     pces |-> (1 :> [styleNumber |-> 0, text |-> <<97>>, clock |-> 2])
              @@ (0 :> [styleNumber |-> 0, text |-> IF n % 2 = 1 THEN <<104>> ELSE <<112>>, clock |-> n + 2]),
     clock |-> n + 2, allClear |-> FALSE, stored |-> {0}, calls |-> 0]
InitPositionCache ==
    /\ LexerIdle
    /\ pcache \in {NewPositionCache, AgedPositionCache(ClockLimit - 3), AgedPositionCache(ClockLimit - 2)}
    /\ reprs = NewSpecialRepresentations /\ llc = NewLineLayoutCache /\ bf = NoBreakFinder
CallMeasureWidths ==
    /\ pcache.calls < MaxCacheCalls
    /\ \E styleNumber \in CacheStyles, monospaceASCII \in BOOLEAN, sv \in CacheTexts :
          pcache' = Called(MeasureWidths(pcache, styleNumber, monospaceASCII, sv))
    /\ UNCHANGED <<lexer, reprs, llc, bf>>
CallPositionCacheClear ==
    /\ pcache.calls < MaxCacheCalls
    /\ pcache' = Called(PositionCacheClear(pcache))
    /\ UNCHANGED <<lexer, reprs, llc, bf>>
CallSetSize ==
    /\ pcache.calls < MaxCacheCalls
    /\ \E size_ \in CacheSizes : pcache' = Called(SetSize(pcache, size_))
    /\ UNCHANGED <<lexer, reprs, llc, bf>>
NextPositionCache == CallMeasureWidths \/ CallPositionCacheClear \/ CallSetSize
SpecPositionCache == InitPositionCache /\ [][NextPositionCache]_vars

\* C38: after any sequence of MeasureWidths, Clear and SetSize calls the clock of the cache is
\* within 1..60000 and no entry has a greater clock; an entry just stored is newer than every
\* other entry; and a store that would take the clock past 60000 leaves every other non-empty
\* entry with the clock 1 and the new entry and the cache with the clock 2.
C38_CacheClock ==
    /\ pcache.clock \in 1..ClockLimit
    /\ \A i \in DOMAIN pcache.pces : pcache.pces[i].clock \in 1..pcache.clock
    /\ \A probe \in pcache.stored :
          \A i \in DOMAIN pcache.pces \ {probe} : NewerThan(pcache.pces[probe], pcache.pces[i])
    /\ pcache.clock = ClockLimit =>
          \A styleNumber \in CacheStyles, sv \in CacheTexts :
             LET n == MeasureWidths(pcache, styleNumber, FALSE, sv)
             IN  \A probe \in n.stored :
                    /\ n.clock = 2 /\ n.pces[probe].clock = 2
                    /\ \A i \in DOMAIN n.pces \ {probe} : n.pces[i].clock = 1
                    /\ DOMAIN n.pces = DOMAIN pcache.pces \cup {probe}
\* The clock has wrapped: a new entry with the clock 2 beside two older ones reset to 1.
C38_Witness ==
    /\ pcache.clock = 2
    /\ \E probe \in pcache.stored : pcache.pces[probe].clock = 2
    /\ Cardinality({i \in DOMAIN pcache.pces : pcache.pces[i].clock = 1}) = 2

\* ------------------------------------------------------------ the LineLayoutCache in use
\* The lines asked for, in a document of LinesInDoc lines: with 17 lines on screen and the top
\* line 0, line 99 has the slot 100, which a cache for 16 lines on screen does not have.
LayoutLines == {0, 35, 99}
CaretLines == {0, 99}
LayoutMaxChars == {1, 2}
LinesOnScreen == {16, 17}
LinesInDoc == {100}
TopLines == {0}
StyleClocks == {0, 1}
CacheLevels == {"Page", "Caret", "Document"}
\* At most MaxLayoutCalls calls are made on the LineLayoutCache.
MaxLayoutCalls == 5

InitLayoutCache ==
    /\ LexerIdle
    /\ llc = NewLineLayoutCache
    /\ reprs = NewSpecialRepresentations /\ pcache = NewPositionCache /\ bf = NoBreakFinder
\* LineCache::None is not supported: Retrieve is called once a level is set.
CallRetrieve ==
    /\ llc.calls < MaxLayoutCalls
    /\ llc.level \in CacheLevels
    /\ \E lineNumber \in LayoutLines, lineCaret \in CaretLines, maxChars \in LayoutMaxChars,
          styleClock_ \in StyleClocks, linesOnScreen \in LinesOnScreen, linesInDoc \in LinesInDoc,
          topLine \in TopLines, nullRead \in BOOLEAN :
          llc' = Called(Retrieve(llc, lineNumber, lineCaret, maxChars, styleClock_,
                                 linesOnScreen, linesInDoc, topLine, nullRead))
    /\ UNCHANGED <<lexer, reprs, pcache, bf>>
CallSetLevel ==
    /\ llc.calls < MaxLayoutCalls
    /\ \E level_ \in CacheLevels : llc' = Called(LineLayoutCacheSetLevel(llc, level_))
    /\ UNCHANGED <<lexer, reprs, pcache, bf>>
CallInvalidate ==
    /\ llc.calls < MaxLayoutCalls
    /\ \E validity_ \in {"invalid", "checkTextAndStyle"} :
          llc' = Called([LineLayoutCacheInvalidate(llc, validity_) EXCEPT !.ret = {}])
    /\ UNCHANGED <<lexer, reprs, pcache, bf>>
CallDeallocate ==
    /\ llc.calls < MaxLayoutCalls
    /\ llc' = Called(Deallocate(llc))
    /\ UNCHANGED <<lexer, reprs, pcache, bf>>
NextLayoutCache == CallRetrieve \/ CallSetLevel \/ CallInvalidate \/ CallDeallocate
SpecLayoutCache == InitLayoutCache /\ [][NextLayoutCache]_vars

\* What Retrieve answers: a slot of the cache that holds a layout of the line asked for, with
\* room for maxChars.
RetrieveAnswer ==
    \A r \in llc.ret :
       /\ r.pos < llc.size
       /\ r.pos \in DOMAIN llc.cache
       /\ llc.cache[r.pos].lineNumber = r.lineNumber
       /\ llc.cache[r.pos].maxLineLength >= r.maxChars
CaretSlotHeld == llc.lastCaretSlot = 0 => 0 \in DOMAIN llc.cache
\* C39: after any sequence of Retrieve, SetLevel, Invalidate and Deallocate calls at the levels
\* Page, Caret and Document, Retrieve answers with a layout (not null) of the requested line
\* whose capacity is at least maxChars, in a slot within the cache, and lastCaretSlot is 0 only
\* while slot 0 holds a layout.
C39_RetrievePostcondition == RetrieveAnswer /\ CaretSlotHeld

\* ------------------------------------------------------------ the BreakFinder in use
Run(n, x) == [i \in 1..n |-> x]
\* The laid-out lines: "ab\r\n"; "aabb\n" in two styles; "a", NUL, "b", "\n"; a run of 310
\* "a"; 305 "a" in one style and 5 "b" in another; and 311 bytes with one space in them.
LaidLines ==
    {[chars |-> <<97, 98, 13, 10>>, styles |-> Run(4, 0), numCharsBeforeEOL |-> 2],
     [chars |-> <<97, 97, 98, 98, 10>>, styles |-> <<1, 1, 2, 2, 0>>, numCharsBeforeEOL |-> 4],
     [chars |-> <<97, 0, 98, 10>>, styles |-> Run(4, 0), numCharsBeforeEOL |-> 3],
     [chars |-> Run(310, 97) \o <<10>>, styles |-> Run(311, 0), numCharsBeforeEOL |-> 310],
     [chars |-> Run(305, 97) \o Run(5, 98) \o <<10>>, styles |-> Run(305, 1) \o Run(5, 2) \o <<0>>,
      numCharsBeforeEOL |-> 310],
     [chars |-> Run(50, 97) \o <<32>> \o Run(260, 97) \o <<10>>, styles |-> Run(312, 0),
      numCharsBeforeEOL |-> 311]}
\* The range of a BreakFinder is a line or a part of a wrapped line: from the line's start or
\* from position 2, to the line end characters or past them.
LineRanges(l) ==
    {[start |-> s, end |-> e] : s \in {0, 2}, e \in {l.numCharsBeforeEOL, Len(l.chars)}}
FirstVisible(range) == {range.start, range.start + 1, range.end}
BreakLists == {<<>>, <<1, 3>>, <<3, 4, 1, 3>>, <<150, 320>>}
EdgeColumns == {0, 3}
\* The representations at hand: none, or those of "\r\n", "\r", "\n" and NUL.
ControlRepresentations ==
    SetRepresentation(SetRepresentation(SetRepresentation(SetRepresentation(
        NewSpecialRepresentations, <<13, 10>>, "x"), <<13>>, "x"), <<10>>, "x"), <<0>>, "x")

InitBreakFinder ==
    /\ LexerIdle
    /\ reprs \in {NewSpecialRepresentations, ControlRepresentations}
    /\ bf = NoBreakFinder
    /\ pcache = NewPositionCache /\ llc = NewLineLayoutCache
Construct ==
    /\ ~bf.built
    /\ \E l \in LaidLines, edgeColumn \in EdgeColumns, breaks \in BreakLists :
          \E lineRange_ \in LineRanges(l) :
             \E found \in FirstVisible(lineRange_) :
                bf' = BreakFinder(l.chars, l.styles, edgeColumn, lineRange_, found, breaks)
    /\ UNCHANGED <<lexer, reprs, pcache, llc>>
CallNext ==
    /\ bf.built
    /\ BreakFinderMore(bf)
    /\ bf' = BreakFinderNext(bf, reprs)
    /\ UNCHANGED <<lexer, reprs, pcache, llc>>
NextBreakFinder == Construct \/ CallNext
\* The caller of a BreakFinder calls Next for as long as More() holds: weak fairness of
\* CallNext, written out with the condition under which CallNext can take a step.
CallNextEnabled == bf.built /\ BreakFinderMore(bf)
CallNextFairness == []<>(~CallNextEnabled) \/ []<><<CallNext>>_vars
SpecBreakFinder == InitBreakFinder /\ [][NextBreakFinder]_vars /\ CallNextFairness

SegmentStart(b, i) == IF i = 1 THEN b.firstBreak ELSE b.segments[i - 1][1] + b.segments[i - 1][2]
SegmentsEnd(b) == SegmentStart(b, Len(b.segments) + 1)
StrictlyIncreasing(s) == \A i \in 1..(Len(s) - 1) : s[i] < s[i + 1]
Segmented ==
    /\ \A i \in 1..Len(bf.segments) :
          bf.segments[i][1] = SegmentStart(bf, i) /\ bf.segments[i][2] > 0
    /\ SegmentsEnd(bf) <= bf.lineRange.end
    /\ (bf.built /\ ~BreakFinderMore(bf)) => SegmentsEnd(bf) = bf.lineRange.end
    /\ StrictlyIncreasing(bf.selAndEdge)
\* C40: the segments that Next() returns while More() holds are contiguous, each of positive
\* length, and together cover the line from the first break to lineRange.end; after finitely
\* many calls More() is false; and selAndEdge is strictly increasing after every Insert.
C40_Segmentation ==
    /\ []Segmented
    /\ (bf.built /\ BreakFinderMore(bf)) ~> (bf.built /\ ~BreakFinderMore(bf))
\* A run of more than 300 bytes has been returned in four or more segments.
C40_Witness ==
    /\ bf.built /\ ~BreakFinderMore(bf)
    /\ Len(bf.chars) > lengthStartSubdivision
    /\ Len(bf.segments) >= 4
    /\ bf.firstBreak = 0

====
